---------------------------- MODULE Spec2Model ----------------------------
(***************************************************************************)
(* Model of the analytics core of crespo.world (src/crespomize/analytics.js *)
(* and its copy src/unnamed/part_001): date validation, gap interpolation, *)
(* calendar-windowed moving average, time-range filter, the two           *)
(* per-account normalizers and the cross-account aggregator, driven by    *)
(* the selection handlers of the page; and of the charts renderDashboard  *)
(* draws of the snapshot, with their scale and trendline handlers, on the *)
(* page of src/crespomize/analytics.js and on that of                     *)
(* src/crespomize-display.js (unnamed/part_001 holds the same functions). *)
(*                                                                         *)
(* Representation.                                                         *)
(*  - A JS Date is a record [nan, t]: nan is TRUE for an Invalid Date,     *)
(*    otherwise t is the time value in hours since 1970-01-01T00:00 (the   *)
(*    local time zone is taken to be UTC and a calendar day to be 24 h).   *)
(*  - A spreadsheet cell is a record [k, n]: k = "num" (a number n),       *)
(*    "date" (a text cell holding an ISO timestamp of time n), "text" (a   *)
(*    non-numeric, non-date text), "empty" (the empty string), "undef"     *)
(*    (the value undefined) or "hole" (a hole of the row array, which      *)
(*    sheet_to_json leaves for an empty cell: it reads as undefined and    *)
(*    map / filter pass over it).                                          *)
(*  - A row name is the sequence of the parts of rowName.split('_'); the   *)
(*    empty sequence is a missing (falsy) name.  A video id is the         *)
(*    sequence of the parts joined by parts.slice(1, -1).join('_'); the    *)
(*    id '' (no part, or one empty part) is the empty sequence.            *)
(*  - jsonData (sheet_to_json with header: 1) is a sequence of rows        *)
(*    [name, cells]; the first is the header row.                          *)
(***************************************************************************)
EXTENDS Integers, Sequences, FiniteSets, TLC

(***************************************************************************)
(* Bounds of the model.                                                    *)
(***************************************************************************)
\* The longest history array handed to interpolateHistoricalData.
MaxHist == 4

\* The longest chart series handed to calculateMovingAverageByDays.
MaxSeries == 3

\* The most timestamp columns of a history sheet.
MaxCols == 3

\* The most post / reel rows of a post sheet.
MaxRows == 2

\* The most sheets (accounts) of a workbook.
MaxAccounts == 2

\* The widest trendline window the crespomize-display.js page is stepped up to.
MaxDays == 9

\* The longest data array given to shouldUseLogScale.
MaxValues == 4

\* The most fetches of loadSheetData in flight at a time.
MaxFetches == 3

\* The most callbacks of selectTimeRange waiting for their timer.
MaxTimers == 2

(***************************************************************************)
(* Sequence helpers (Array.prototype.map / filter / reduce / sort).        *)
(***************************************************************************)
RECURSIVE SumRange(_, _, _)
\* s[from] + ... + s[to], 0 for no entry; the sum is taken by halves.
SumRange(s, from, to) ==
  IF from > to THEN 0
  ELSE IF from = to THEN s[from]
  ELSE SumRange(s, from, (from + to) \div 2)
         + SumRange(s, (from + to) \div 2 + 1, to)

\* array.reduce((sum, v) => sum + v, 0)
SumSeq(s) == SumRange(s, 1, Len(s))

\* The array of the values f[1], ..., f[n] of a function on 1..n, as a tuple.
ArrayOf(f) == <<>> \o f

SeqOfLen(S, n) == [1..n -> S]

SeqUpTo(S, n) == UNION {SeqOfLen(S, k) : k \in 0..n}

Last(s) == s[Len(s)]

Range(s) == {s[p] : p \in DOMAIN s}

(***************************************************************************)
(* Dates.                                                                  *)
(***************************************************************************)
HoursPerDay == 24

MkDate(t) == [nan |-> FALSE, t |-> t]

InvalidDate == [nan |-> TRUE, t |-> 0]

\* The instant that is h hours into day d (days counted from 1970-01-01).
At(d, h) == d * HoursPerDay + h

\* Date.prototype.getFullYear of a valid date: the proleptic Gregorian year
\* of the day t \div 24 (days-to-civil conversion).
getFullYear(t) ==
  LET z    == (t \div HoursPerDay) + 719468
      era  == z \div 146097
      doe  == z - era * 146097
      yoe  == (doe - (doe \div 1460) + (doe \div 36524) - (doe \div 146096)) \div 365
      doy  == doe - (365 * yoe + (yoe \div 4) - (yoe \div 100))
      mp   == (5 * doy + 2) \div 153
      m    == IF mp < 10 THEN mp + 3 ELSE mp - 9
  IN  yoe + era * 400 + (IF m <= 2 THEN 1 ELSE 0)

\* new Date(): the current instant, 2026-10-29T12:00.
Now == At(20755, 12)

\* date instanceof Date: a Date is the record [nan, t]; a cell value (a
\* string, a number, '' or undefined) is none.
InstanceOfDate(date) == DOMAIN date = {"nan", "t"}

\* Faulty variant: no upper limit on the year.
isValidDateNoUpperLimit(date) ==
  IF ~InstanceOfDate(date) THEN FALSE
  ELSE IF date.nan THEN FALSE
  ELSE getFullYear(date.t) >= 2020

\* isValidDate(date)
isValidDate(date) ==
  IF ~InstanceOfDate(date) THEN FALSE
  ELSE IF date.nan
    THEN FALSE
    ELSE LET year        == getFullYear(date.t)
             currentYear == getFullYear(Now)
         IN  year >= 2020 /\ year <= currentYear + 1

\* date.setDate(date.getDate() + n) on the time value t.
setDate(t, n) == t + n * HoursPerDay

(***************************************************************************)
(* interpolateHistoricalData.  A history item is [date, value]; the values *)
(* the normalizers pass are integers (parseInt(val) || 0), so a gap is the *)
(* value 0.  prevValue / nextValue = null is represented by 0, which no    *)
(* found value can be, since the search requires value > 0.                *)
(***************************************************************************)
\* Faulty variant: a negative value is taken for a gap as well.
needsInterpNonPositive(item) == item.value <= 0

\* item.value === 0 || item.value === null || item.value === undefined
needsInterp(item) == item.value = 0

\* Faulty variant: rounds down instead of rounding to the nearest integer.
MathTrunc(num, den) == num \div den

\* Math.round(num / den) for den > 0: floor(num/den + 1/2).
MathRound(num, den) == (2 * num + den) \div (2 * den)

RECURSIVE GroupEnd(_, _)
\* the inner while loop: the last index of the run of flagged entries at i
GroupEnd(flags, e) ==
  IF e + 1 <= Len(flags) /\ flags[e + 1] THEN GroupEnd(flags, e + 1) ELSE e

RECURSIVE PrevValue(_, _, _)
PrevValue(items, flags, j) ==
  IF j < 1 THEN 0
  ELSE IF ~flags[j] /\ items[j].value > 0 THEN items[j].value
  ELSE PrevValue(items, flags, j - 1)

RECURSIVE NextValue(_, _, _)
NextValue(items, flags, j) ==
  IF j > Len(items) THEN 0
  ELSE IF ~flags[j] /\ items[j].value > 0 THEN items[j].value
  ELSE NextValue(items, flags, j + 1)

\* Faulty variant: counts the steps from the far end of the run.
InterpolatedValueReversed(prevValue, nextValue, stepNumber, totalSteps) ==
  MathRound(prevValue * totalSteps + (nextValue - prevValue) * (totalSteps - stepNumber),
            totalSteps)

\* The value written at step stepNumber of a run of totalSteps - 1 entries.
InterpolatedValue(prevValue, nextValue, stepNumber, totalSteps) ==
  MathRound(prevValue * totalSteps + (nextValue - prevValue) * stepNumber, totalSteps)

\* Faulty variant: divides by the run length instead of the run length plus one.
FillGroupOffByOne(items, groupStart, groupEnd, prevValue, nextValue) ==
  [j \in 1..Len(items) |->
     IF j >= groupStart /\ j <= groupEnd /\ prevValue # 0 /\ nextValue # 0
       THEN [items[j] EXCEPT !.value =
               InterpolatedValue(prevValue, nextValue, j - groupStart + 1,
                                 groupEnd - groupStart + 1)]
       ELSE items[j]]

\* Faulty variant: a run without a valid value before it is never filled.
FillGroupForwardOnly(items, groupStart, groupEnd, prevValue, nextValue) ==
  [j \in 1..Len(items) |->
     IF j >= groupStart /\ j <= groupEnd /\ prevValue # 0
       THEN IF nextValue # 0
              THEN [items[j] EXCEPT !.value =
                      InterpolatedValue(prevValue, nextValue, j - groupStart + 1,
                                        groupEnd - groupStart + 2)]
              ELSE [items[j] EXCEPT !.value = prevValue]
       ELSE items[j]]

\* The three fill branches of one run.
FillGroup(items, groupStart, groupEnd, prevValue, nextValue) ==
  [j \in 1..Len(items) |->
     IF j >= groupStart /\ j <= groupEnd
       THEN IF prevValue # 0 /\ nextValue # 0
              THEN [items[j] EXCEPT !.value =
                      InterpolatedValue(prevValue, nextValue, j - groupStart + 1,
                                        groupEnd - groupStart + 2)]
            ELSE IF prevValue # 0 THEN [items[j] EXCEPT !.value = prevValue]
            ELSE IF nextValue # 0 THEN [items[j] EXCEPT !.value = nextValue]
            ELSE items[j]
       ELSE items[j]]

\* One iteration of the outer while loop at index i (1-based): the array
\* and the index after it.
InterpIter(items, flags, i) ==
  IF ~flags[i]
    THEN [items |-> items, i |-> i + 1]
    ELSE LET groupEnd  == GroupEnd(flags, i)
             prevValue == PrevValue(items, flags, i - 1)
             nextValue == NextValue(items, flags, groupEnd + 1)
         IN  [items |-> FillGroup(items, i, groupEnd, prevValue, nextValue),
              i     |-> groupEnd + 1]

RECURSIVE InterpLoop(_, _, _)
InterpLoop(items, flags, i) ==
  IF i > Len(items) THEN items
  ELSE LET r == InterpIter(items, flags, i) IN InterpLoop(r.items, flags, r.i)

NeedsInterpFlags(historyArray) ==
  [idx \in 1..Len(historyArray) |-> needsInterp(historyArray[idx])]

interpolateHistoricalData(historyArray) ==
  IF Len(historyArray) = 0 THEN historyArray
  ELSE InterpLoop(historyArray, NeedsInterpFlags(historyArray), 1)

(***************************************************************************)
(* calculateMovingAverageByDays.  A chart point is [x, y], x a time value; *)
(* the average sum / windowPoints.length is kept as the fraction num/den.  *)
(***************************************************************************)
\* Faulty variant: the bounds of the window are excluded.
WindowPointsExclusive(data, startDate, endDate) ==
  SelectSeq(data, LAMBDA p : p.x > startDate /\ p.x < endDate)

\* the inner loop: the points whose date lies between startDate and endDate
WindowPoints(data, startDate, endDate) ==
  SelectSeq(data, LAMBDA p : p.x >= startDate /\ p.x <= endDate)

\* Faulty variant: rounds the half window up instead of down.
MovingAveragePointHalfUp(data, i, days) ==
  LET halfWindow   == (days + 1) \div 2
      startDate    == setDate(data[i].x, 0 - halfWindow)
      endDate      == setDate(data[i].x, days - halfWindow)
      windowPoints == WindowPoints(data, startDate, endDate)
  IN  [x |-> data[i].x,
       num |-> SumSeq([j \in 1..Len(windowPoints) |-> windowPoints[j].y]),
       den |-> Len(windowPoints)]

\* The body of the outer loop: the point pushed for data[i].
MovingAveragePoint(data, i, days) ==
  LET halfWindow   == days \div 2
      startDate    == setDate(data[i].x, 0 - halfWindow)
      endDate      == setDate(data[i].x, days - halfWindow)
      windowPoints == WindowPoints(data, startDate, endDate)
  IN  IF Len(windowPoints) > 0
        THEN [x |-> data[i].x,
              num |-> SumSeq([j \in 1..Len(windowPoints) |-> windowPoints[j].y]),
              den |-> Len(windowPoints)]
        ELSE [x |-> data[i].x, num |-> data[i].y, den |-> 1]

calculateMovingAverageByDays(data, days) ==
  [i \in 1..Len(data) |-> MovingAveragePoint(data, i, days)]

(***************************************************************************)
(* Cells and their conversions.                                            *)
(***************************************************************************)
Num(n) == [k |-> "num", n |-> n]

DateText(t) == [k |-> "date", n |-> t]

Text == [k |-> "text", n |-> 0]

EmptyStr == [k |-> "empty", n |-> 0]

Undef == [k |-> "undef", n |-> 0]

Hole == [k |-> "hole", n |-> 0]

\* Milliseconds in an hour: new Date(number) takes the number as milliseconds.
MsPerHour == 3600000

\* new Date(cell)
NewDate(cell) ==
  CASE cell.k = "date" -> MkDate(cell.n)
    [] cell.k = "num"  -> MkDate(cell.n \div MsPerHour)
    [] OTHER           -> InvalidDate

\* parseInt(cell) || 0 (parseFloat(cell) || 0 on the integers of the model):
\* NaN for a text, an empty string or undefined; the leading digits (the
\* year) of an ISO timestamp text.
ParseIntOr0(cell) ==
  CASE cell.k = "num"  -> cell.n
    [] cell.k = "date" -> getFullYear(cell.n)
    [] OTHER           -> 0

\* cellValue !== null && cellValue !== undefined && cellValue !== ''
NonEmpty(cell) == cell.k \notin {"undef", "hole", "empty"}

\* Truthiness of a stored attribute (filter(v => v.Date)).
Truthy(cell) == cell.k \in {"date", "text"} \/ (cell.k = "num" /\ cell.n # 0)

\* row[i] of a row's cells, undefined past the end and at a hole.
CellAt(cells, i) ==
  IF i >= 1 /\ i <= Len(cells) /\ cells[i] # Hole THEN cells[i] ELSE Undef

(***************************************************************************)
(* filterDataByTimeRange.  timeRangeDays is "all" or a number of days,     *)
(* kept as the record [all, days].                                         *)
(***************************************************************************)
RangeAll == [all |-> TRUE, days |-> 0]

RangeDays(n) == [all |-> FALSE, days |-> n]

(***************************************************************************)
(* shouldUseLogScale, on integer data.                                     *)
(***************************************************************************)
\* values.sort((a, b) => a - b): the place of values[p] in the sorted array.
RankByValue(values, p) ==
  1 + Cardinality({q \in 1..Len(values) :
                     \/ values[q] < values[p]
                     \/ values[q] = values[p] /\ q < p})

SortByValue(values) ==
  [k \in 1..Len(values) |->
     values[CHOOSE p \in 1..Len(values) : RankByValue(values, p) = k]]

\* Math.max(...values) and Math.min(...values) of a non-empty array.
MathMax(values) ==
  CHOOSE m \in Range(values) : \A v \in Range(values) : v <= m

MathMin(values) ==
  CHOOSE m \in Range(values) : \A v \in Range(values) : m <= v

\* Faulty variant: the lower of the two middle elements of an even count.
MedianIndexLower(n) == (n - 1) \div 2 + 1

\* The 1-based place of index Math.floor(values.length / 2).
MedianIndex(n) == n \div 2 + 1

\* ratio > 100 || medianRatio > 10, the quotients of positive integers
\* compared by cross-multiplication.
shouldUseLogScale(dataValues) ==
  IF Len(dataValues) = 0 THEN FALSE
  ELSE LET values == SelectSeq(dataValues, LAMBDA v : v > 0)
       IN  IF Len(values) = 0 THEN FALSE
           ELSE LET max == MathMax(values)
                    min == MathMin(values)
                    median == SortByValue(values)[MedianIndex(Len(values))]
                IN  max > 100 * min \/ max > 10 * median

\* Faulty variant: the video dated exactly at the cutoff is dropped.
filterDataByTimeRangeExclusive(videos, timeRangeDays) ==
  IF timeRangeDays.all THEN videos
  ELSE LET cutoffDate == setDate(Now, 0 - timeRangeDays.days)
       IN  SelectSeq(videos, LAMBDA v : ~v.date.nan /\ v.date.t > cutoffDate)

\* v.date >= cutoffDate compares the time values; it is false for an
\* Invalid Date, whose time value is NaN.
filterDataByTimeRange(videos, timeRangeDays) ==
  IF timeRangeDays.all THEN videos
  ELSE LET cutoffDate == setDate(Now, 0 - timeRangeDays.days)
       IN  SelectSeq(videos, LAMBDA v : ~v.date.nan /\ v.date.t >= cutoffDate)

(***************************************************************************)
(* Array.prototype.sort((a, b) => a.date - b.date): a stable sort by date  *)
(* of items whose dates are all valid.                                     *)
(***************************************************************************)
\* The place of items[i] in the sorted array: after the items of an earlier
\* date and after the items of the same date that come before it.
RankByDate(items, i) ==
  1 + Cardinality({j \in 1..Len(items) :
                     \/ items[j].date.t < items[i].date.t
                     \/ items[j].date.t = items[i].date.t /\ j < i})

SortByDate(items) ==
  LET rank == ArrayOf([i \in 1..Len(items) |-> RankByDate(items, i)])
  IN  [k \in 1..Len(items) |-> items[CHOOSE i \in 1..Len(items) : rank[i] = k]]

(***************************************************************************)
(* The per-account normalizers, parseAccountDataTikTok and                 *)
(* parseAccountDataInstagram.  The loop state is the record                *)
(* [followersHistory, totalLikesHistory, followers, totalLikes,            *)
(*  allVideosMap, allUniqueVideoIds]; allVideosMap (a Map, iterated in      *)
(* insertion order) is a sequence of video objects, an unset attribute     *)
(* being Undef.  followers / totalLikes = null is 0 (parseInt(null) || 0). *)
(***************************************************************************)
VideoFields == {"Date", "Views", "Likes", "Comments", "Shares", "EngagementRate"}

NewVideo(videoId) ==
  [id |-> videoId, Date |-> Undef, Views |-> Undef, Likes |-> Undef,
   Comments |-> Undef, Shares |-> Undef, EngagementRate |-> Undef]

InitialParseState ==
  [followersHistory |-> <<>>, totalLikesHistory |-> <<>>,
   followers |-> 0, totalLikes |-> 0,
   allVideosMap |-> <<>>, allUniqueVideoIds |-> {}]

\* jsonData[0].slice(1)
Headers(jsonData) == jsonData[1].cells

\* row.slice(1).map((val, idx) => ({date: new Date(headers[idx]),
\*   value: parseInt(val) || 0})).filter(item => isValidDate(item.date))
\* map makes no item for a hole of the row and filter passes over the hole
\* map leaves; the item of a cell keeps the header of the cell's own column.
HistoryFromRow(cells, headers) ==
  LET kept == SelectSeq([idx \in 1..Len(cells) |-> idx],
                        LAMBDA idx : /\ cells[idx] # Hole
                                     /\ isValidDate(NewDate(CellAt(headers, idx))))
  IN  [p \in 1..Len(kept) |->
         [date  |-> NewDate(CellAt(headers, kept[p])),
          value |-> ParseIntOr0(cells[kept[p]])]]

\* history.length > 0 ? history[history.length - 1].value : fallback
LatestValue(history, fallback) ==
  IF Len(history) > 0 THEN Last(history).value ELSE fallback

RECURSIVE LastNonEmpty(_, _)
\* for (colIdx = row.length - 1; colIdx >= 1; colIdx--): the index of the
\* first non-empty cell met, 0 when the loop ends without one.
LastNonEmpty(cells, colIdx) ==
  IF colIdx < 1 THEN 0
  ELSE IF NonEmpty(cells[colIdx]) THEN colIdx
  ELSE LastNonEmpty(cells, colIdx - 1)

VideoIndex(allVideosMap, videoId) ==
  LET hits == {p \in 1..Len(allVideosMap) : allVideosMap[p].id = videoId}
  IN  IF hits = {} THEN 0 ELSE CHOOSE p \in hits : TRUE

\* Faulty variant: assigns the attribute even when it is already set.
SetAttributeOverwrite(allVideosMap, videoId, metric, cellValue) ==
  LET pos  == VideoIndex(allVideosMap, videoId)
      map1 == IF pos = 0 THEN Append(allVideosMap, NewVideo(videoId)) ELSE allVideosMap
      at   == IF pos = 0 THEN Len(map1) ELSE pos
  IN  IF metric \in VideoFields
        THEN [map1 EXCEPT ![at] = [@ EXCEPT ![metric] = cellValue]]
        ELSE map1

\* if (!allVideosMap.has(videoId)) allVideosMap.set(videoId, {id: videoId});
\* if (video[metric] === undefined) video[metric] = cellValue;
\* An attribute outside VideoFields is stored on the object and never read.
SetAttribute(allVideosMap, videoId, metric, cellValue) ==
  LET pos  == VideoIndex(allVideosMap, videoId)
      map1 == IF pos = 0 THEN Append(allVideosMap, NewVideo(videoId)) ELSE allVideosMap
      at   == IF pos = 0 THEN Len(map1) ELSE pos
  IN  IF metric \in VideoFields /\ map1[at][metric] = Undef
        THEN [map1 EXCEPT ![at] = [@ EXCEPT ![metric] = cellValue]]
        ELSE map1

\* The right-to-left scan of one post / reel row.
ScanRow(allVideosMap, videoId, metric, cells) ==
  LET colIdx == LastNonEmpty(cells, Len(cells))
  IN  IF colIdx = 0 THEN allVideosMap
      ELSE SetAttribute(allVideosMap, videoId, metric, cells[colIdx])

\* rowName.split('_'): metric = parts[parts.length - 1]
MetricOf(name) == Last(name)

\* videoId = parts.slice(1, -1).join('_'): no part and one empty part both
\* join to the string ''.
VideoIdOf(name) ==
  LET middle == SubSeq(name, 2, Len(name) - 1)
  IN  IF middle = <<"">> THEN <<>> ELSE middle

\* rowName.startsWith(prefix + '_')
StartsWith(name, prefix) == Len(name) >= 2 /\ name[1] = prefix

\* rowName.endsWith('_' + suffix)
EndsWith(name, suffix) == Len(name) >= 2 /\ Last(name) = suffix

\* The body of the row loop of parseAccountDataTikTok.
RowStepTikTok(st, row, headers) ==
  IF row.name = <<>> THEN st
  ELSE IF row.name = <<"followers">> THEN
    LET h == HistoryFromRow(row.cells, headers)
    IN  [st EXCEPT !.followersHistory = h, !.followers = LatestValue(h, 0)]
  ELSE IF row.name = <<"total", "likes">> THEN
    LET h == HistoryFromRow(row.cells, headers)
    IN  [st EXCEPT !.totalLikesHistory = h, !.totalLikes = LatestValue(h, 0)]
  ELSE IF row.name = <<"posts", "scraped">> THEN st
  ELSE IF StartsWith(row.name, "post") THEN
    LET metric  == MetricOf(row.name)
        videoId == VideoIdOf(row.name)
    IN  [st EXCEPT
           !.allUniqueVideoIds = IF metric = "Date" THEN @ \cup {videoId} ELSE @,
           !.allVideosMap = ScanRow(@, videoId, metric, row.cells)]
  ELSE st

\* The names an object literal inherits from Object.prototype that can be
\* the last part of a row name (no '_' in them).
ObjectPrototypeNames ==
  {"constructor", "toString", "toLocaleString", "valueOf", "hasOwnProperty",
   "isPrototypeOf", "propertyIsEnumerable"}

\* metricMapping[metric] of parseAccountDataInstagram: "" for an unmapped
\* metric (undefined); for a name of Object.prototype the inherited function
\* (truthy), as a key "function" that no attribute of a video has.
MetricMapping(metric) ==
  CASE metric = "date"       -> "Date"
    [] metric = "views"      -> "Views"
    [] metric = "likes"      -> "Likes"
    [] metric = "comments"   -> "Comments"
    [] metric = "engagement" -> "EngagementRate"
    [] metric \in ObjectPrototypeNames -> "function"
    [] OTHER                 -> ""

\* The body of the row loop of parseAccountDataInstagram.
RowStepInstagram(st, row, headers) ==
  IF row.name = <<>> THEN st
  ELSE IF row.name = <<"followers">> THEN
    LET h == HistoryFromRow(row.cells, headers)
    IN  [st EXCEPT !.followersHistory = h, !.followers = LatestValue(h, 0)]
  ELSE IF row.name = <<"reels", "scraped">> THEN st
  ELSE IF StartsWith(row.name, "reel") THEN
    LET metric       == MetricOf(row.name)
        videoId      == VideoIdOf(row.name)
        mappedMetric == MetricMapping(metric)
    IN  [st EXCEPT
           !.allUniqueVideoIds = IF metric = "date" THEN @ \cup {videoId} ELSE @,
           !.allVideosMap = IF mappedMetric # ""
                              THEN ScanRow(@, videoId, mappedMetric, row.cells)
                              ELSE @]
  ELSE st

RowStep(platform, st, row, headers) ==
  IF platform = "instagram" THEN RowStepInstagram(st, row, headers)
  ELSE RowStepTikTok(st, row, headers)

RECURSIVE RowLoopRange(_, _, _, _, _)
\* The iterations from..to of the row loop on the state st, in the order of
\* the rows.  The state the first half leaves is computed (it is compared
\* with st) before the second half is entered.
RowLoopRange(platform, st, jsonData, from, to) ==
  IF from > to THEN st
  ELSE IF from = to THEN RowStep(platform, st, jsonData[from], Headers(jsonData))
  ELSE LET mid  == (from + to) \div 2
           half == RowLoopRange(platform, st, jsonData, from, mid)
       IN  IF half = st
             THEN RowLoopRange(platform, st, jsonData, mid + 1, to)
             ELSE RowLoopRange(platform, half, jsonData, mid + 1, to)

\* for (let i = 1; i < jsonData.length; i++), i the 1-based index of the row
RowLoop(platform, st, jsonData, i) ==
  RowLoopRange(platform, st, jsonData, i, Len(jsonData))

\* Faulty variant: the cells of every reel_ row are summed, whatever its metric.
ColumnTotalLikesAnyMetric(jsonData, colIdx) ==
  SumSeq([i \in 1..(Len(jsonData) - 1) |->
            LET row == jsonData[i + 1]
            IN  IF StartsWith(row.name, "reel")
                  THEN ParseIntOr0(CellAt(row.cells, colIdx))
                  ELSE 0])

\* The per-column sum of the reel_*_likes rows (Instagram has no total_likes row).
ColumnTotalLikes(jsonData, colIdx) ==
  SumSeq([i \in 1..(Len(jsonData) - 1) |->
            LET row == jsonData[i + 1]
            IN  IF StartsWith(row.name, "reel") /\ EndsWith(row.name, "likes")
                  THEN ParseIntOr0(CellAt(row.cells, colIdx))
                  ELSE 0])

InstagramLikesHistory(jsonData) ==
  LET headers == Headers(jsonData)
      all == [colIdx \in 1..Len(headers) |->
                [date  |-> NewDate(headers[colIdx]),
                 value |-> ColumnTotalLikes(jsonData, colIdx)]]
      pushed == SelectSeq(all, LAMBDA item : item.value > 0)
  IN  SelectSeq(pushed, LAMBDA item : isValidDate(item.date) /\ item.value > 0)

\* Faulty variant: keeps every interpolated point, whatever its value.
PostFilterNone(history) == SelectSeq(history, LAMBDA item : isValidDate(item.date))

\* history.filter(item => isValidDate(item.date) && item.value > 0)
PostFilter(history) ==
  SelectSeq(history, LAMBDA item : isValidDate(item.date) /\ item.value > 0)

\* Faulty variant: a record is made of every video with a Date, valid or not.
CleanVideosUnvalidated(platform, allVideosMap) ==
  LET dated == SelectSeq(allVideosMap, LAMBDA v : Truthy(v.Date))
      valid == dated
  IN  SortByDate(ArrayOf([p \in 1..Len(valid) |->
        [date       |-> NewDate(valid[p].Date),
         views      |-> ParseIntOr0(valid[p].Views),
         likes      |-> ParseIntOr0(valid[p].Likes),
         comments   |-> ParseIntOr0(valid[p].Comments),
         shares     |-> IF platform = "instagram" THEN 0
                        ELSE ParseIntOr0(valid[p].Shares),
         engagement |-> ParseIntOr0(valid[p].EngagementRate)]]))

\* videosData.filter(v => v.Date).map(...).filter(v => v !== null)
\*   .sort((a, b) => a.date - b.date); Instagram has no shares.
CleanVideos(platform, allVideosMap) ==
  LET dated == SelectSeq(allVideosMap, LAMBDA v : Truthy(v.Date))
      valid == SelectSeq(dated, LAMBDA v : isValidDate(NewDate(v.Date)))
  IN  SortByDate(ArrayOf([p \in 1..Len(valid) |->
        [date       |-> NewDate(valid[p].Date),
         views      |-> ParseIntOr0(valid[p].Views),
         likes      |-> ParseIntOr0(valid[p].Likes),
         comments   |-> ParseIntOr0(valid[p].Comments),
         shares     |-> IF platform = "instagram" THEN 0
                        ELSE ParseIntOr0(valid[p].Shares),
         engagement |-> ParseIntOr0(valid[p].EngagementRate)]]))

\* Faulty variant: postsScraped counts the materialized post records.
FinishAccountMaterialized(platform, st, jsonData, timeRangeDays) ==
  LET likes0 == IF platform = "instagram" THEN InstagramLikesHistory(jsonData)
                ELSE st.totalLikesHistory
      totalLikes0 == IF platform = "instagram" THEN LatestValue(likes0, 0)
                     ELSE st.totalLikes
      followersHistory  == PostFilter(interpolateHistoricalData(st.followersHistory))
      totalLikesHistory == PostFilter(interpolateHistoricalData(likes0))
  IN  [threw             |-> FALSE,
       followers         |-> LatestValue(followersHistory, st.followers),
       totalLikes        |-> LatestValue(totalLikesHistory, totalLikes0),
       postsScraped      |-> Len(CleanVideos(platform, st.allVideosMap)),
       videos            |-> filterDataByTimeRange(
                               CleanVideos(platform, st.allVideosMap), timeRangeDays),
       followersHistory  |-> followersHistory,
       totalLikesHistory |-> totalLikesHistory]

\* What follows the row loop, up to the returned AccountSnapshot.
FinishAccount(platform, st, jsonData, timeRangeDays) ==
  LET likes0 == IF platform = "instagram" THEN InstagramLikesHistory(jsonData)
                ELSE st.totalLikesHistory
      totalLikes0 == IF platform = "instagram" THEN LatestValue(likes0, 0)
                     ELSE st.totalLikes
      followersHistory  == PostFilter(interpolateHistoricalData(st.followersHistory))
      totalLikesHistory == PostFilter(interpolateHistoricalData(likes0))
  IN  [threw             |-> FALSE,
       followers         |-> LatestValue(followersHistory, st.followers),
       totalLikes        |-> LatestValue(totalLikesHistory, totalLikes0),
       postsScraped      |-> Cardinality(st.allUniqueVideoIds),
       videos            |-> filterDataByTimeRange(
                               CleanVideos(platform, st.allVideosMap), timeRangeDays),
       followersHistory  |-> followersHistory,
       totalLikesHistory |-> totalLikesHistory]

\* A TypeError that leaves the function: no snapshot is returned.
Thrown ==
  [threw |-> TRUE, followers |-> 0, totalLikes |-> 0, postsScraped |-> 0,
   videos |-> <<>>, followersHistory |-> <<>>, totalLikesHistory |-> <<>>]

\* jsonData[0].slice(1) throws a TypeError when the sheet has no row at all
\* (jsonData[0] is undefined).
HeaderThrows(jsonData) == Len(jsonData) = 0

\* parseAccountData(sheetName, timeRangeDays) on the sheet's jsonData, under
\* the selected platform.
parseAccountData(platform, jsonData, timeRangeDays) ==
  IF HeaderThrows(jsonData) THEN Thrown
  ELSE FinishAccount(platform, RowLoop(platform, InitialParseState, jsonData, 2),
                     jsonData, timeRangeDays)

(***************************************************************************)
(* The cross-account aggregator, parseMoonMediaTotal.  workbookData is the *)
(* sequence of the sheets' jsonData in SheetNames order.  An object keyed  *)
(* by ISO timestamp (followersByTimestamp, likesByTimestamp) is a sequence *)
(* of entries [date, total, accountCount] in insertion order; the ISO      *)
(* string of a valid date identifies its time value.                       *)
(***************************************************************************)
TimestampIndex(byTimestamp, date) ==
  LET hits == {p \in 1..Len(byTimestamp) : byTimestamp[p].date.t = date.t}
  IN  IF hits = {} THEN 0 ELSE CHOOSE p \in hits : TRUE

\* The body of data.followersHistory.forEach / data.totalLikesHistory.forEach.
AddPoint(byTimestamp, item) ==
  IF ~isValidDate(item.date) THEN byTimestamp
  ELSE LET pos == TimestampIndex(byTimestamp, item.date)
       IN  IF pos = 0
             THEN Append(byTimestamp,
                         [date |-> item.date, total |-> item.value, accountCount |-> 1])
             ELSE [byTimestamp EXCEPT ![pos] =
                     [@ EXCEPT !.total = @ + item.value,
                               !.accountCount = @ + 1]]

RECURSIVE AddHistory(_, _)
AddHistory(byTimestamp, history) ==
  IF history = <<>> THEN byTimestamp
  ELSE AddHistory(AddPoint(byTimestamp, Head(history)), Tail(history))

\* Faulty variant: keeps every timestamp that any account reported.
CombinedHistoryAny(byTimestamp, totalAccountCount) ==
  SortByDate(
    SelectSeq([p \in 1..Len(byTimestamp) |->
                 [date |-> byTimestamp[p].date, value |-> byTimestamp[p].total]],
              LAMBDA item : isValidDate(item.date) /\ item.value > 0))

\* Object.values(byTimestamp).filter(item => item.accountCount === totalAccountCount)
\*   .map(...).filter(item => isValidDate(item.date) && item.value > 0).sort(...)
CombinedHistory(byTimestamp, totalAccountCount) ==
  LET complete == SelectSeq(byTimestamp,
                            LAMBDA e : e.accountCount = totalAccountCount)
  IN  SortByDate(
        SelectSeq([p \in 1..Len(complete) |->
                     [date |-> complete[p].date, value |-> complete[p].total]],
                  LAMBDA item : isValidDate(item.date) /\ item.value > 0))

\* allVideos.slice(-100)
LastPostsCount == 100

\* Faulty variant: the rate is taken over every video.
LastPostsAll(allVideos) == allVideos

LastPosts(allVideos) ==
  IF Len(allVideos) <= LastPostsCount THEN allVideos
  ELSE SubSeq(allVideos, Len(allVideos) - LastPostsCount + 1, Len(allVideos))

SecondsPerHour == 3600

\* viewsPerSecond as the fraction num/den (0/1 when it stays 0).
ViewsPerSecond(allVideos) ==
  LET last100Posts == LastPosts(allVideos)
      totalViewsInPeriod == SumSeq([p \in 1..Len(last100Posts) |-> last100Posts[p].views])
      timeSpanSeconds ==
        (Last(last100Posts).date.t - Head(last100Posts).date.t) * SecondsPerHour
  IN  IF Len(last100Posts) >= 2 /\ timeSpanSeconds > 0
        THEN [num |-> totalViewsInPeriod, den |-> timeSpanSeconds]
        ELSE [num |-> 0, den |-> 1]

\* The state of the accounts.forEach loop.
InitialTotalState ==
  [threw |-> FALSE, totalFollowers |-> 0, totalLikes |-> 0, totalPosts |-> 0,
   allVideos |-> <<>>, followersByTimestamp |-> <<>>, likesByTimestamp |-> <<>>]

\* Faulty variant: the videos of an account replace those gathered so far.
AddAccountLastVideos(acc, data) ==
  IF acc.threw \/ data.threw THEN [acc EXCEPT !.threw = TRUE]
  ELSE [threw                |-> FALSE,
        totalFollowers       |-> acc.totalFollowers + data.followers,
        totalLikes           |-> acc.totalLikes + data.totalLikes,
        totalPosts           |-> acc.totalPosts + data.postsScraped,
        allVideos            |-> data.videos,
        followersByTimestamp |-> AddHistory(acc.followersByTimestamp,
                                            data.followersHistory),
        likesByTimestamp     |-> AddHistory(acc.likesByTimestamp,
                                            data.totalLikesHistory)]

\* The accumulation of one account's snapshot into the totals.
AddAccount(acc, data) ==
  IF acc.threw \/ data.threw THEN [acc EXCEPT !.threw = TRUE]
  ELSE [threw                |-> FALSE,
        totalFollowers       |-> acc.totalFollowers + data.followers,
        totalLikes           |-> acc.totalLikes + data.totalLikes,
        totalPosts           |-> acc.totalPosts + data.postsScraped,
        allVideos            |-> acc.allVideos \o data.videos,
        followersByTimestamp |-> AddHistory(acc.followersByTimestamp,
                                            data.followersHistory),
        likesByTimestamp     |-> AddHistory(acc.likesByTimestamp,
                                            data.totalLikesHistory)]

\* The body of accounts.forEach for one sheet.
AccountStep(platform, acc, jsonData, timeRangeDays) ==
  AddAccount(acc, parseAccountData(platform, jsonData, timeRangeDays))

RECURSIVE AccountsLoop(_, _, _, _, _)
AccountsLoop(platform, acc, workbook, timeRangeDays, i) ==
  IF i > Len(workbook) THEN acc
  ELSE AccountsLoop(platform, AccountStep(platform, acc, workbook[i], timeRangeDays),
                    workbook, timeRangeDays, i + 1)

\* The AggregateSnapshot a thrown TypeError leaves unreturned.
ThrownTotal ==
  [threw |-> TRUE, followers |-> 0, totalLikes |-> 0, postsScraped |-> 0,
   videos |-> <<>>, followersHistory |-> <<>>, totalLikesHistory |-> <<>>,
   totalViews |-> 0, viewsPerSecond |-> [num |-> 0, den |-> 1], accountCount |-> 0]

\* What follows the accounts loop, up to the returned AggregateSnapshot.
FinishTotal(acc, totalAccountCount) ==
  LET allVideos == SortByDate(acc.allVideos)
  IN  IF acc.threw THEN ThrownTotal
      ELSE [threw             |-> FALSE,
            followers         |-> acc.totalFollowers,
            totalLikes        |-> acc.totalLikes,
            postsScraped      |-> acc.totalPosts,
            videos            |-> allVideos,
            followersHistory  |-> CombinedHistory(acc.followersByTimestamp,
                                                  totalAccountCount),
            totalLikesHistory |-> CombinedHistory(acc.likesByTimestamp,
                                                  totalAccountCount),
            totalViews        |-> SumSeq([p \in 1..Len(allVideos) |-> allVideos[p].views]),
            viewsPerSecond    |-> ViewsPerSecond(allVideos),
            accountCount      |-> totalAccountCount]

\* parseMoonMediaTotal(timeRangeDays) on workbookData under the selected platform.
\* workbookData = null (the workbook <<>>): workbookData.SheetNames throws.
parseMoonMediaTotal(platform, workbook, timeRangeDays) ==
  IF workbook = <<>> THEN ThrownTotal
  ELSE FinishTotal(AccountsLoop(platform, InitialTotalState, workbook, timeRangeDays, 1),
                   Len(workbook))

(***************************************************************************)
(* Charts and their trendline.  A chart point is [x, y] with y the         *)
(* fraction [num, den] in lowest terms (a raw point has den = 1), so that  *)
(* two points are equal exactly when their numbers are.  A chart is the    *)
(* record [type, scales, y1Display, data, originalData, trend]: scales     *)
(* holds the types of options.scales.x / y / y1 ("" an absent axis), data  *)
(* the data of datasets[0], originalData its originalData property and     *)
(* trend the dataset labelled 'Trend'.  The header of a chart in           *)
(* #chartsList is [badge, inactive, trendline]: the text and the class of  *)
(* its scale badge and whether it has the trendline badge and the          *)
(* smoothness buttons.  crespomize/analytics.js smooths the data of the    *)
(* chart's only dataset in place; the page of crespomize-display.js (and   *)
(* unnamed/part_001, which has the same functions) keeps the second        *)
(* dataset 'Trend' on the axis y1.                                         *)
(***************************************************************************)
RECURSIVE GCD(_, _)
GCD(a, b) == IF b = 0 THEN a ELSE GCD(b, a % b)

\* The number num / den (den > 0, num >= 0) as a fraction in lowest terms.
Fraction(num, den) ==
  [num |-> num \div GCD(num, den), den |-> den \div GCD(num, den)]

\* The chart points of a series of integer values.
ChartPoints(series) ==
  [p \in 1..Len(series) |-> [x |-> series[p].x, y |-> Fraction(series[p].y, 1)]]

RECURSIVE Product(_)
Product(s) == IF s = <<>> THEN 1 ELSE Head(s) * Product(Tail(s))

\* calculateMovingAverageByDays on chart points: the y values are brought to
\* a common denominator, averaged, and returned in lowest terms.
SmoothedData(originalData, currentDays) ==
  LET common   == Product([p \in 1..Len(originalData) |-> originalData[p].y.den])
      scaled   == [p \in 1..Len(originalData) |->
                     [x |-> originalData[p].x,
                      y |-> originalData[p].y.num * (common \div originalData[p].y.den)]]
      averaged == calculateMovingAverageByDays(scaled, currentDays)
  IN  [p \in 1..Len(averaged) |->
         [x |-> averaged[p].x,
          y |-> Fraction(averaged[p].num, averaged[p].den * common)]]

\* A dataset without the originalData property.
AbsentData == [present |-> FALSE, data |-> <<>>]

\* A chart without the dataset 'Trend'.
NoTrend == [present |-> FALSE, data |-> <<>>, hidden |-> TRUE]

\* Faulty variant: the displayed data is smoothed again.
OriginalOrDataDisplayed(original, displayed) == displayed

\* chart.data.datasets[0].originalData || chart.data.datasets[0].data
OriginalOrData(original, displayed) ==
  IF original.present THEN original.data ELSE displayed

\* Faulty variant: the trendline keeps the 7-day window of its creation.
TrendlineDataOfCreation(dataDataset, daysAverage) == SmoothedData(dataDataset, 7)

\* calculateMovingAverageByDays(dataDataset.data, trendlineDaysAverage[chartId])
TrendlineData(dataDataset, daysAverage) == SmoothedData(dataDataset, daysAverage)

\* The ids createChart of crespomize/analytics.js gives its charts.
AnalyticsChartIds ==
  {"chart-views", "chart-engagement", "chart-followers", "chart-totallikes",
   "chart-likes", "chart-comments", "chart-shares"}

\* The ids of the charts of crespomize-display.js.
DisplayChartIds ==
  {"followers-history", "likes-history", "views-time", "likes-time",
   "engagement-time", "comments-time", "shares-time", "correlation"}

ChartIds == AnalyticsChartIds \cup DisplayChartIds

\* chartInstances[chartId] of an id without a chart (undefined).
NoChart ==
  [type |-> "", scales |-> [x |-> "", y |-> "", y1 |-> ""], y1Display |-> FALSE,
   data |-> <<>>, originalData |-> AbsentData, trend |-> NoTrend]

\* The header of a chart that is not in #chartsList.
NoHeader == [badge |-> "", inactive |-> TRUE, trendline |-> FALSE]

\* What renderDashboard makes for an id it creates no chart of.
NotCreated == [chart |-> NoChart, header |-> NoHeader]

\* useLog ? 'logarithmic' : 'linear'
ScaleType(useLog) == IF useLog THEN "logarithmic" ELSE "linear"

\* videos.map(v => ({x: v.date, y: v[field]}))
VideoPoints(videos, field) ==
  [p \in 1..Len(videos) |->
     [x |-> videos[p].date.t, y |-> Fraction(videos[p][field], 1)]]

\* history.map(item => ({x: item.date, y: item.value}))
HistoryPoints(history) ==
  [p \in 1..Len(history) |->
     [x |-> history[p].date.t, y |-> Fraction(history[p].value, 1)]]

\* AppState.accountData.videos.map(v => ({x: v.views, y: v.likes}))
CorrelationPoints(videos) ==
  [p \in 1..Len(videos) |-> [x |-> videos[p].views, y |-> Fraction(videos[p].likes, 1)]]

\* data.map(d => d.y) of the points a chart is created with
YValues(points) == [p \in 1..Len(points) |-> points[p].y.num]

\* The property of the snapshot, or [] for a property the object lacks
\* (accountData.videos || []).
ListOr(snapshot, field) ==
  IF field \in DOMAIN snapshot THEN snapshot[field] ELSE <<>>

\* createChart(id, title, data, color, type) of crespomize/analytics.js: it
\* returns at once on an empty data; the trendline badge and the smoothness
\* buttons are in the markup of a line chart only.
createChart(points, type) ==
  LET useLogScale == shouldUseLogScale(YValues(points))
  IN  IF Len(points) = 0 THEN NotCreated
      ELSE [chart  |-> [type         |-> type,
                        scales       |-> [x  |-> "time",
                                          y  |-> ScaleType(useLogScale),
                                          y1 |-> ""],
                        y1Display    |-> FALSE,
                        data         |-> points,
                        originalData |-> AbsentData,
                        trend        |-> NoTrend],
            header |-> [badge     |-> IF useLogScale THEN "LOG" ELSE "LINEAR",
                        inactive  |-> ~useLogScale,
                        trendline |-> type = "line"]]

\* createLineChart(container, title, historyData, datasets, useLog, chartId)
createLineChart(points, useLog) ==
  [chart  |-> [type         |-> "line",
               scales       |-> [x |-> "time", y |-> ScaleType(useLog), y1 |-> ""],
               y1Display    |-> FALSE,
               data         |-> points,
               originalData |-> AbsentData,
               trend        |-> NoTrend],
   header |-> [badge     |-> IF useLog THEN "LOG SCALE" ELSE "LINEAR",
               inactive  |-> ~useLog,
               trendline |-> FALSE]]

\* createTimeBasedChart(container, title, videos, datasets, useLog, chartId,
\* includeTrendline) on its one dataset (it has no type: the chart is a
\* 'scatter'): with includeTrendline the hidden dataset 'Trend', the 7-day
\* average of the data, and the axis y1 are added.
createTimeBasedChart(points, useLog, includeTrendline) ==
  [chart  |-> [type         |-> "scatter",
               scales       |-> [x  |-> "time",
                                 y  |-> ScaleType(useLog),
                                 y1 |-> IF includeTrendline THEN ScaleType(useLog)
                                        ELSE ""],
               y1Display    |-> FALSE,
               data         |-> points,
               originalData |-> AbsentData,
               trend        |-> IF includeTrendline
                                  THEN [present |-> TRUE,
                                        data    |-> SmoothedData(points, 7),
                                        hidden  |-> TRUE]
                                  ELSE NoTrend],
   header |-> [badge     |-> IF useLog THEN "LOG SCALE" ELSE "LINEAR",
               inactive  |-> ~useLog,
               trendline |-> includeTrendline]]

\* The scatter chart 'correlation' renderDashboard of crespomize-display.js
\* builds itself: likes over views, both axes with the scale of the views.
CorrelationChart(videos) ==
  LET useLogCorrelation == shouldUseLogScale([p \in 1..Len(videos) |-> videos[p].views])
  IN  [chart  |-> [type         |-> "scatter",
                   scales       |-> [x  |-> ScaleType(useLogCorrelation),
                                     y  |-> ScaleType(useLogCorrelation),
                                     y1 |-> ""],
                   y1Display    |-> FALSE,
                   data         |-> CorrelationPoints(videos),
                   originalData |-> AbsentData,
                   trend        |-> NoTrend],
       header |-> [badge     |-> IF useLogCorrelation THEN "LOG SCALE" ELSE "LINEAR",
                   inactive  |-> ~useLogCorrelation,
                   trendline |-> FALSE]]

\* renderDashboard of crespomize/analytics.js: what it creates for each id
\* from the snapshot.  The charts of the videos are asked for when there is
\* a video, the shares chart on TikTok only, the charts of the histories
\* when the history has an entry.
renderDashboardAnalytics(platform, snapshot) ==
  LET videos            == ListOr(snapshot, "videos")
      followersHistory  == ListOr(snapshot, "followersHistory")
      totalLikesHistory == ListOr(snapshot, "totalLikesHistory")
  IN  [id \in ChartIds |->
         CASE id = "chart-views" ->
                createChart(VideoPoints(videos, "views"), "bar")
           [] id = "chart-engagement" ->
                createChart(VideoPoints(videos, "engagement"), "line")
           [] id = "chart-followers" ->
                createChart(HistoryPoints(followersHistory), "line")
           [] id = "chart-totallikes" ->
                createChart(HistoryPoints(totalLikesHistory), "line")
           [] id = "chart-likes" ->
                createChart(VideoPoints(videos, "likes"), "bar")
           [] id = "chart-comments" ->
                createChart(VideoPoints(videos, "comments"), "bar")
           [] id = "chart-shares" ->
                IF platform = "tiktok"
                  THEN createChart(VideoPoints(videos, "shares"), "bar")
                  ELSE NotCreated
           [] OTHER -> NotCreated]

\* A chart createTimeBasedChart makes of a property of the videos, with the
\* trendline, on the scale shouldUseLogScale gives for its values.
TimeChart(videos, field) ==
  createTimeBasedChart(VideoPoints(videos, field),
                       shouldUseLogScale(YValues(VideoPoints(videos, field))), TRUE)

\* A chart createLineChart makes of a history.
HistoryChart(history) ==
  IF Len(history) = 0 THEN NotCreated
  ELSE createLineChart(HistoryPoints(history),
                       shouldUseLogScale(YValues(HistoryPoints(history))))

\* renderDashboard of crespomize-display.js (and unnamed/part_001): what it
\* creates for each id from the snapshot.  'engagement-time' is created on
\* the linear scale whatever its values, 'shares-time' on TikTok only.
renderDashboardDisplay(platform, snapshot) ==
  LET videos == snapshot.videos
  IN  [id \in ChartIds |->
         CASE id = "followers-history" ->
                HistoryChart(ListOr(snapshot, "followersHistory"))
           [] id = "likes-history" ->
                HistoryChart(ListOr(snapshot, "totalLikesHistory"))
           [] id \in {"views-time", "likes-time", "comments-time"} ->
                IF Len(videos) = 0 THEN NotCreated
                ELSE TimeChart(videos, CASE id = "views-time" -> "views"
                                         [] id = "likes-time" -> "likes"
                                         [] OTHER -> "comments")
           [] id = "engagement-time" ->
                IF Len(videos) = 0 THEN NotCreated
                ELSE createTimeBasedChart(VideoPoints(videos, "engagement"), FALSE, TRUE)
           [] id = "shares-time" ->
                IF Len(videos) = 0 \/ platform # "tiktok" THEN NotCreated
                ELSE TimeChart(videos, "shares")
           [] id = "correlation" ->
                IF Len(videos) = 0 THEN NotCreated ELSE CorrelationChart(videos)
           [] OTHER -> NotCreated]

\* The statistics of renderDashboard of crespomize-display.js end in a
\* TypeError on a property the snapshot lacks: formatNumber(undefined) for
\* followers, undefined.toFixed for viewsPerSecond under
\* isMoonMediaTotal.  renderDashboard of crespomize/analytics.js reads
\* every property with a default.
RenderThrows(page, total, snapshot) ==
  /\ page = "display"
  /\ \/ "followers" \notin DOMAIN snapshot
     \/ total /\ "viewsPerSecond" \notin DOMAIN snapshot

\* currentType === 'logarithmic' ? 'linear' : 'logarithmic'
NewType(currentType) ==
  IF currentType = "logarithmic" THEN "linear" ELSE "logarithmic"

\* Faulty variant: only the y axis takes the new type.
ToggledScalesOnlyY(id, scales) == [scales EXCEPT !.y = NewType(scales.y)]

\* The scale types toggleLogScale(chartId) leaves.
ToggledScales(id, scales) ==
  [x  |-> IF id = "correlation" /\ scales.x # "" THEN NewType(scales.y) ELSE scales.x,
   y  |-> NewType(scales.y),
   y1 |-> IF scales.y1 # "" THEN NewType(scales.y) ELSE scales.y1]

\* The header toggleLogScale leaves for the new type.
ToggledBadge(header, newType) ==
  IF newType = "logarithmic"
    THEN [header EXCEPT !.badge = "LOG SCALE", !.inactive = FALSE]
    ELSE [header EXCEPT !.badge = "LINEAR", !.inactive = TRUE]

\* The header toggleScale of crespomize/analytics.js leaves for the new type.
ToggledScaleBadge(header, newType) ==
  IF newType = "logarithmic"
    THEN [header EXCEPT !.badge = "LOG", !.inactive = FALSE]
    ELSE [header EXCEPT !.badge = "LINEAR", !.inactive = TRUE]

\* trendlineDaysAverage[chartId] || 7
DaysOr7(currentDays) == IF currentDays = 0 THEN 7 ELSE currentDays

\* Faulty variant: an increase at 90 moves on to a further width.
SmoothnessUpPast90(currentDays) ==
  IF currentDays < 3 THEN 3
  ELSE IF currentDays < 7 THEN 7
  ELSE IF currentDays < 14 THEN 14
  ELSE IF currentDays < 30 THEN 30
  ELSE IF currentDays < 60 THEN 60
  ELSE IF currentDays < 90 THEN 90
  ELSE IF currentDays < 120 THEN 120
  ELSE currentDays

\* adjustSmoothness, delta > 0: the next width of the ladder, or the same
\* width where the handler returns.
SmoothnessUp(currentDays) ==
  IF currentDays < 3 THEN 3
  ELSE IF currentDays < 7 THEN 7
  ELSE IF currentDays < 14 THEN 14
  ELSE IF currentDays < 30 THEN 30
  ELSE IF currentDays < 60 THEN 60
  ELSE IF currentDays < 90 THEN 90
  ELSE currentDays

\* adjustSmoothness, delta <= 0.
SmoothnessDown(currentDays) ==
  IF currentDays > 90 THEN 90
  ELSE IF currentDays > 60 THEN 60
  ELSE IF currentDays > 30 THEN 30
  ELSE IF currentDays > 14 THEN 14
  ELSE IF currentDays > 7 THEN 7
  ELSE IF currentDays > 3 THEN 3
  ELSE IF currentDays > 1 THEN 1
  ELSE currentDays

\* Faulty variant: the width follows the direction without a floor.
AdjustedDaysNoFloor(currentDays, direction) == currentDays + direction

\* adjustTrendlineSmoothness: Math.max(1, trendlineDaysAverage + direction)
AdjustedDays(currentDays, direction) ==
  IF currentDays + direction >= 1 THEN currentDays + direction ELSE 1

(***************************************************************************)
(* State.                                                                  *)
(***************************************************************************)
VARIABLES
  historyArray,      \* the argument of a call of interpolateHistoricalData
  interpolated,      \* its working array
  i,                 \* the index of its outer while loop (1-based)
  data,              \* the series of a call of calculateMovingAverageByDays
  days,              \* its window, in days
  result,            \* the points pushed so far
  selectedPlatform,  \* "tiktok" or "instagram"
  workbookData,      \* the sheets of the loaded workbook
  selectedAccount,   \* the index of the selected sheet; -1 is MOONMEDIA_TOTAL
  isMoonMediaTotal,
  selectedTimeRange,
  accountData,       \* the snapshot of the last completed selection
  uncaught,          \* the last call of selectTimeRange was left by a TypeError
  rowIndex,          \* the row parseAccountData is at; 0 when it is not running
  parseState,        \* the state of its row loop
  filterVideos,      \* the videos argument of a call of filterDataByTimeRange
  filterRange,       \* its timeRangeDays argument
  filterResult,      \* what the call returned: [called, value]
  scaleData,         \* the data argument of a call of shouldUseLogScale
  scaleResult,       \* what the call returned: [called, value]
  validInput,        \* the argument of a call of isValidDate
  validResult,       \* what the call returned: [called, value]
  pendingFetches,    \* the platforms of the fetches of loadSheetData in flight
  accountSelect,     \* the options of #accountSelect: [shows, accounts]
  timers,            \* the days of the callbacks selectTimeRange has set, oldest first
  timeRangeLabel,    \* the text of #timeRangeLabel
  renderedData,      \* the snapshot renderDashboard last drew
  script,            \* the script of the page: "analytics" or "display"
  chartInstances,    \* chartInstances[chartId]; NoChart is undefined
  chartsList,        \* the header of each chart in #chartsList; NoHeader is none
  trendlineStates,   \* trendlineStates[chartId]; FALSE is false or undefined
  trendlineDaysAverage,  \* trendlineDaysAverage[chartId]; 0 is undefined
  lastCall           \* the last call of a chart handler since renderDashboard ran

vars ==
  <<historyArray, interpolated, i, data, days, result, selectedPlatform,
    workbookData, selectedAccount, isMoonMediaTotal, selectedTimeRange,
    accountData, uncaught, rowIndex, parseState, filterVideos,
    filterRange, filterResult, scaleData, scaleResult, validInput, validResult,
    pendingFetches, accountSelect, timers, timeRangeLabel, renderedData, script,
    chartInstances, chartsList, trendlineStates, trendlineDaysAverage, lastCall>>

interpVars == <<historyArray, interpolated, i>>

averageVars == <<data, days, result>>

callVars ==
  <<filterVideos, filterRange, filterResult, scaleData, scaleResult, validInput,
    validResult>>

pageVars ==
  <<selectedPlatform, workbookData, selectedAccount, isMoonMediaTotal,
    selectedTimeRange, accountData, uncaught, rowIndex, parseState,
    pendingFetches, accountSelect, timers, timeRangeLabel, renderedData>>

chartVars ==
  <<script, chartInstances, chartsList, trendlineStates, trendlineDaysAverage,
    lastCall>>

(***************************************************************************)
(* Inputs.                                                                 *)
(***************************************************************************)
\* Scrape instants: three recent days, one more than 180 days and one more
\* than 365 days before Now, and one in a year past currentYear + 1.
Day1 == At(20750, 0)

Day2 == At(20751, 0)

Day3 == At(20752, 0)

\* Ten days before Now.
DayRecent == At(20745, 0)

DayOld == At(20555, 0)

DayOlder == At(20300, 0)

DayFuture == At(21200, 0)

\* The values of a history array: a negative entry, a gap and valid values.
InterpValues == {0 - 3, 0, 1, 2, 100, 200}

\* History arrays of consecutive valid daily timestamps.
HistoryOf(values) ==
  [idx \in 1..Len(values) |-> [date |-> MkDate(setDate(Day1, idx)), value |-> values[idx]]]

Histories == {HistoryOf(values) : values \in SeqUpTo(InterpValues, MaxHist)}

\* Chart points: instants half a day, one day and two and a half days after
\* the first, with two y values.
SeriesTimes == {Day1, Day1 + 12, Day2, Day3 + 12}

SeriesPoints == {[x |-> x, y |-> y] : x \in SeriesTimes, y \in {1, 3}}

SeriesSet == SeqUpTo(SeriesPoints, MaxSeries)

WindowDays == {1, 2, 7}

Platforms == {"tiktok", "instagram"}

TimeRanges == {RangeAll, RangeDays(30), RangeDays(180), RangeDays(365)}

Row(name, cells) == [name |-> name, cells |-> cells]

Reverse(s) == [k \in 1..Len(s) |-> s[Len(s) + 1 - k]]

\* The likes row of a sheet: total_likes for TikTok, one reel's likes for Instagram.
LikesRowName(platform) ==
  IF platform = "instagram" THEN <<"reel", "a", "likes">> ELSE <<"total", "likes">>

\* Header rows of n timestamp columns: in scrape order, with the first two
\* swapped, with the second repeating the first, and with a second cell that
\* is no date, a date past currentYear + 1 or a number (an epoch date).
HeaderPattern(kind, n) ==
  [k \in 1..n |->
     CASE kind = "sorted"   -> DateText(setDate(Day1, k - 1))
       [] kind = "swapped"  -> DateText(setDate(Day1, IF k = 1 THEN 1 ELSE IF k = 2 THEN 0 ELSE k - 1))
       [] kind = "repeated" -> DateText(setDate(Day1, IF k = 1 THEN 0 ELSE k - 2))
       [] kind = "text"     -> IF k = 2 THEN Text ELSE DateText(setDate(Day1, k - 1))
       [] kind = "future"   -> IF k = 2 THEN DateText(DayFuture) ELSE DateText(setDate(Day1, k - 1))
       [] kind = "number"   -> IF k = 2 THEN Num(45000) ELSE DateText(setDate(Day1, k - 1))]

HeaderKinds == {"sorted", "swapped", "repeated", "text", "future", "number"}

\* The cells of a followers / likes row: a gap, two counts, a negative
\* number and a text.
ValueCells == {Num(0), Num(5), Num(8), Num(0 - 2), Text}

\* A sheet of n timestamp columns with a followers row and a likes row (the
\* followers cells in reverse).
HistorySheet(platform, kind, cells) ==
  <<Row(<<>>, HeaderPattern(kind, Len(cells))),
    Row(<<"followers">>, cells),
    Row(LikesRowName(platform), Reverse(cells))>>

HistorySheets(platform) ==
  {HistorySheet(platform, kind, cells) :
     kind \in HeaderKinds, cells \in SeqUpTo(ValueCells, MaxCols)}

\* Post / reel rows over two timestamp columns: the attribute rows of ids
\* "a" and "b_c", with blank cells, re-scraped values, a 0, a text and dates
\* in and out of every range.
PostPrefix(platform) == IF platform = "instagram" THEN "reel" ELSE "post"

DateMetric(platform) == IF platform = "instagram" THEN "date" ELSE "Date"

ViewsMetric(platform) == IF platform = "instagram" THEN "views" ELSE "Views"

PostRows(platform) ==
  {Row(<<PostPrefix(platform), "a", DateMetric(platform)>>, cells) :
     cells \in {<<DateText(Day1), EmptyStr>>, <<DateText(DayOld), DateText(Day2)>>,
                <<Text, Hole>>, <<EmptyStr, Hole>>, <<Num(0)>>}}
  \cup
  {Row(<<PostPrefix(platform), "a", ViewsMetric(platform)>>, cells) :
     cells \in {<<Num(7), EmptyStr>>, <<Num(7), Num(9)>>, <<Num(0), Hole>>,
                <<Hole, EmptyStr>>, <<Text>>}}
  \cup
  {Row(<<PostPrefix(platform), "b", "c", DateMetric(platform)>>, cells) :
     cells \in {<<EmptyStr, DateText(DayOlder)>>, <<DateText(DayFuture), Hole>>}}
  \cup
  {Row(<<PostPrefix(platform), "b", "c", ViewsMetric(platform)>>, <<Num(3), Hole>>),
   Row(<<>>, <<>>),
   Row(<<"notes">>, <<Text, Text>>)}

PostSheet(rows) ==
  <<Row(<<>>, <<DateText(Day1), DateText(Day2)>>)>> \o rows

PostSheets(platform) == {PostSheet(rows) : rows \in SeqUpTo(PostRows(platform), MaxRows)}

\* Instagram sheets with the likes rows of two reels: the second reel has 0
\* likes in the first column and 5 in the others.
TwoLikesSheets ==
  {HistorySheet("instagram", kind, cells)
     \o <<Row(<<"reel", "b", "c", "likes">>,
              [k \in 1..Len(cells) |-> IF k = 1 THEN Num(0) ELSE Num(5)])>> :
     kind \in {"sorted", "text"}, cells \in SeqUpTo(ValueCells, MaxCols)}

\* A sheet without any row (sheet_to_json of an empty sheet is []).
EmptySheet == <<>>

\* Sheets with an empty cell inside a followers / likes row, with the post
\* rows post_Date and post__Views (both of the id ''), and with a row whose
\* metric is a name of Object.prototype ahead of two posts of one date.
EdgeSheets(platform) ==
  {HistorySheet(platform, "sorted", cells) :
     cells \in {<<Num(5), Hole, Num(8)>>, <<Hole, Num(5)>>, <<Num(0), Hole, Num(8)>>,
                <<Hole, Hole>>}}
  \cup
  {PostSheet(<<Row(<<PostPrefix(platform), DateMetric(platform)>>, <<DateText(Day1)>>),
               Row(<<PostPrefix(platform), "", ViewsMetric(platform)>>, <<Num(5)>>)>>),
   PostSheet(<<Row(<<PostPrefix(platform), "a", "constructor">>, <<Num(1)>>),
               Row(<<PostPrefix(platform), "b", DateMetric(platform)>>, <<DateText(Day1)>>),
               Row(<<PostPrefix(platform), "b", ViewsMetric(platform)>>, <<Num(2)>>),
               Row(<<PostPrefix(platform), "a", DateMetric(platform)>>, <<DateText(Day1)>>),
               Row(<<PostPrefix(platform), "a", ViewsMetric(platform)>>, <<Num(1)>>)>>)}

\* The sheets of the calls of parseAccountData.
AccountSheets(platform) ==
  HistorySheets(platform) \cup PostSheets(platform) \cup {EmptySheet}
    \cup EdgeSheets(platform)
    \cup (IF platform = "instagram" THEN TwoLikesSheets ELSE {})

\* The sheets of the workbooks handed to parseMoonMediaTotal: histories at
\* days {1,2,3}, {1,3}, {1}, {1,1} and {2,1}, gaps, posts of every age, and
\* a sheet with both histories and a post.
TotalSheets(platform) ==
  {HistorySheet(platform, "sorted", <<Num(5), Num(8), Num(5)>>),
   HistorySheet(platform, "text", <<Num(8), Num(5), Num(5)>>),
   HistorySheet(platform, "sorted", <<Num(5)>>),
   HistorySheet(platform, "repeated", <<Num(5), Num(8)>>),
   HistorySheet(platform, "swapped", <<Num(8), Num(5)>>),
   HistorySheet(platform, "sorted", <<Num(5), Num(0), Num(8)>>),
   HistorySheet(platform, "sorted", <<Num(0), Num(0)>>),
   HistorySheet(platform, "sorted", <<Num(5), Hole, Num(8)>>),
   PostSheet(<<Row(<<PostPrefix(platform), "a", DateMetric(platform)>>, <<DateText(Day1)>>),
               Row(<<PostPrefix(platform), "a", ViewsMetric(platform)>>, <<Num(7)>>)>>),
   PostSheet(<<Row(<<PostPrefix(platform), "a", DateMetric(platform)>>, <<DateText(DayOld)>>),
               Row(<<PostPrefix(platform), "a", ViewsMetric(platform)>>, <<Num(9)>>),
               Row(<<PostPrefix(platform), "b", DateMetric(platform)>>, <<DateText(Day3)>>),
               Row(<<PostPrefix(platform), "b", ViewsMetric(platform)>>, <<Num(3)>>)>>),
   PostSheet(<<Row(<<PostPrefix(platform), "a", DateMetric(platform)>>, <<DateText(DayOlder)>>),
               Row(<<PostPrefix(platform), "a", ViewsMetric(platform)>>, <<Num(4)>>)>>),
   HistorySheet(platform, "sorted", <<Num(5), Num(8)>>)
     \o <<Row(<<PostPrefix(platform), "m", DateMetric(platform)>>, <<DateText(Day2)>>),
          Row(<<PostPrefix(platform), "m", ViewsMetric(platform)>>, <<Num(2)>>)>>,
   EmptySheet}

TotalWorkbooks(platform) == SeqUpTo(TotalSheets(platform), MaxAccounts) \ {<<>>}

(***************************************************************************)
(* Calls of interpolateHistoricalData, one iteration of the outer loop per *)
(* step.                                                                   *)
(***************************************************************************)
InterpDone == i > Len(historyArray)

InterpStep ==
  /\ i <= Len(historyArray)
  /\ LET r == InterpIter(interpolated, NeedsInterpFlags(historyArray), i)
     IN  /\ interpolated' = r.items
         /\ i' = r.i
  /\ UNCHANGED <<historyArray, averageVars, pageVars, callVars, chartVars>>

(***************************************************************************)
(* Calls of calculateMovingAverageByDays, one point per step.              *)
(***************************************************************************)
AverageDone == Len(result) = Len(data)

AverageStep ==
  /\ Len(result) < Len(data)
  /\ result' = Append(result, MovingAveragePoint(data, Len(result) + 1, days))
  /\ UNCHANGED <<data, days, interpVars, pageVars, callVars, chartVars>>

(***************************************************************************)
(* selectTimeRange(days).  For one account the row loop of                 *)
(* parseAccountData runs a row per step; the handler is otherwise atomic.  *)
(* A TypeError leaves the handler before accountData is assigned and       *)
(* before setTimeout is called; a later call runs as any other.  A call    *)
(* that returns hands its callback to setTimeout: timers holds the days of *)
(* the callbacks that have not run yet, at most MaxTimers of them.         *)
(***************************************************************************)
Idle == rowIndex = 0

\* The value of the option "All MoonMedia Analytics" ('MOONMEDIA_TOTAL'), and
\* of an option without a value attribute, whose text names no sheet; 0 is
\* the empty value '' and k >= 1 the name of the k-th sheet.
MoonMediaTotal == 0 - 1

OptionText == 0 - 2

\* sheet_to_json(workbookData.Sheets[sheetName]): no row when the name is not
\* one of a sheet.  With workbookData = null the lookup itself throws the
\* TypeError that the missing header row throws otherwise.
SelectedSheet ==
  IF selectedAccount \in DOMAIN workbookData THEN workbookData[selectedAccount]
  ELSE <<>>

SelectTimeRangeTotal(range) ==
  /\ Idle
  /\ isMoonMediaTotal
  /\ Len(timers) < MaxTimers
  /\ selectedTimeRange' = range
  /\ LET total == parseMoonMediaTotal(selectedPlatform, workbookData, range)
     IN  IF total.threw
           THEN uncaught' = TRUE /\ UNCHANGED <<accountData, timers>>
           ELSE /\ accountData' = total
                /\ timers' = Append(timers, range)
                /\ uncaught' = FALSE
  /\ UNCHANGED <<selectedPlatform, workbookData, selectedAccount, isMoonMediaTotal,
                 rowIndex, parseState, interpVars, averageVars,
                 chartVars, callVars, pendingFetches,
                 accountSelect, timeRangeLabel, renderedData>>

SelectTimeRange(range) ==
  /\ Idle
  /\ ~isMoonMediaTotal
  /\ Len(timers) < MaxTimers
  /\ selectedTimeRange' = range
  /\ IF HeaderThrows(SelectedSheet)
       THEN uncaught' = TRUE /\ UNCHANGED <<rowIndex, parseState>>
       ELSE /\ rowIndex' = 2
            /\ parseState' = InitialParseState
            /\ uncaught' = FALSE
  /\ UNCHANGED <<selectedPlatform, workbookData, selectedAccount, isMoonMediaTotal,
                 accountData, interpVars, averageVars,
                 chartVars, callVars, pendingFetches,
                 accountSelect, timers, timeRangeLabel, renderedData>>

ParseRow ==
  /\ rowIndex >= 2
  /\ rowIndex <= Len(SelectedSheet)
  /\ parseState' = RowStep(selectedPlatform, parseState, SelectedSheet[rowIndex],
                           Headers(SelectedSheet))
  /\ rowIndex' = rowIndex + 1
  /\ UNCHANGED <<selectedPlatform, workbookData, selectedAccount, isMoonMediaTotal,
                 selectedTimeRange, accountData, uncaught, interpVars, averageVars,
                 chartVars, callVars, pendingFetches,
                 accountSelect, timers, timeRangeLabel, renderedData>>

\* Faulty variant: the videos of the previous snapshot stay in the list.
ParseFinishAccumulating ==
  /\ rowIndex >= 2
  /\ rowIndex > Len(SelectedSheet)
  /\ accountData' =
       [FinishAccount(selectedPlatform, parseState, SelectedSheet, selectedTimeRange)
          EXCEPT !.videos = (IF "videos" \in DOMAIN accountData
                               THEN accountData.videos ELSE <<>>) \o @]
  /\ rowIndex' = 0
  /\ parseState' = InitialParseState
  /\ timers' = Append(timers, selectedTimeRange)
  /\ UNCHANGED <<selectedPlatform, workbookData, selectedAccount, isMoonMediaTotal,
                 selectedTimeRange, uncaught, interpVars, averageVars,
                 chartVars, callVars, pendingFetches,
                 accountSelect, timeRangeLabel, renderedData>>

\* the return of parseAccountData, the assignment to accountData and the
\* call of setTimeout
ParseFinish ==
  /\ rowIndex >= 2
  /\ rowIndex > Len(SelectedSheet)
  /\ accountData' = FinishAccount(selectedPlatform, parseState, SelectedSheet,
                                  selectedTimeRange)
  /\ rowIndex' = 0
  /\ parseState' = InitialParseState
  /\ timers' = Append(timers, selectedTimeRange)
  /\ UNCHANGED <<selectedPlatform, workbookData, selectedAccount, isMoonMediaTotal,
                 selectedTimeRange, uncaught, interpVars, averageVars,
                 chartVars, callVars, pendingFetches,
                 accountSelect, timeRangeLabel, renderedData>>

\* The values of the options of #accountSelect: the empty value, "All
\* MoonMedia Analytics" and the sheet names once loadSheetData has listed
\* the accounts; the text of the option while it shows the error; the empty
\* value of the option while it shows "loading accounts...".
AccountOptions ==
  IF accountSelect.shows \in Platforms
    THEN {0, MoonMediaTotal} \cup (1..accountSelect.accounts)
  ELSE IF accountSelect.shows = "error" THEN {OptionText}
  ELSE {0}

\* nextStep(1) with #accountSelect at the option of the value: an empty
\* value is stored and the handler returns after the alert.
NextStep1(value) ==
  /\ Idle
  /\ value \in AccountOptions
  /\ selectedAccount' = value
  /\ isMoonMediaTotal' = IF value = 0 THEN isMoonMediaTotal ELSE value = MoonMediaTotal
  /\ UNCHANGED <<selectedPlatform, workbookData, selectedTimeRange, accountData,
                 uncaught, rowIndex, parseState, pendingFetches,
                 accountSelect, timers, timeRangeLabel, renderedData, interpVars,
                 averageVars, callVars, chartVars>>

(***************************************************************************)
(* The handlers of the badges and buttons of a chart.  A handler is bound  *)
(* in the header of its chart, so it is called with the id of a chart of   *)
(* #chartsList, and it reads and writes the entries of that id only.       *)
(* Between two runs of renderDashboard the calls on one chart are          *)
(* followed, the chart of the first call.  lastCall keeps the call and     *)
(* what the entries of its chart were when it was made.                    *)
(***************************************************************************)
\* The entries of the id in the objects of the page.
EntriesOf(id) ==
  [chart  |-> chartInstances[id],
   header |-> chartsList[id],
   state  |-> trendlineStates[id],
   days   |-> trendlineDaysAverage[id]]

\* No handler has been called since renderDashboard ran.
NoCall ==
  [handler |-> "", chartId |-> "", argument |-> 0,
   before |-> [chart |-> NoChart, header |-> NoHeader, state |-> FALSE, days |-> 0]]

Call(handler, id, argument) ==
  [handler |-> handler, chartId |-> id, argument |-> argument, before |-> EntriesOf(id)]

\* The calls of the chart handlers that are followed: the chart of the id
\* is in #chartsList, no other chart has been operated since renderDashboard
\* ran, and no callback of selectTimeRange is pending.  The handlers read
\* and write the objects of the charts only, so a call made while a callback
\* is pending acts as the same call made just before the selection.
Followed(id) ==
  /\ chartsList[id].badge # ""
  /\ lastCall.chartId \in {"", id}
  /\ timers = <<>>

\* if (!chart) return;
Undefined(id) == chartInstances[id].type = ""

\* toggleScale(chartId) of crespomize/analytics.js
ToggleScale(id) ==
  /\ script = "analytics"
  /\ Followed(id)
  /\ lastCall' = Call("toggleScale", id, 0)
  /\ IF Undefined(id)
       THEN UNCHANGED <<chartInstances, chartsList>>
       ELSE LET newType == NewType(chartInstances[id].scales.y)
            IN  /\ chartInstances' = [chartInstances EXCEPT ![id].scales.y = newType]
                /\ chartsList' = [chartsList EXCEPT ![id] = ToggledScaleBadge(@, newType)]
  /\ UNCHANGED <<script, trendlineStates, trendlineDaysAverage, interpVars,
                 averageVars, pageVars, callVars>>

\* toggleTrendline(chartId) of crespomize/analytics.js
ToggleTrendline(id) ==
  /\ script = "analytics"
  /\ Followed(id)
  /\ chartsList[id].trendline
  /\ lastCall' = Call("toggleTrendline", id, 0)
  /\ IF Undefined(id)
       THEN UNCHANGED <<chartInstances, trendlineStates>>
       ELSE LET chart == chartInstances[id]
            IN  /\ trendlineStates' = [trendlineStates EXCEPT ![id] = ~@]
                /\ chartInstances' =
                     [chartInstances EXCEPT ![id] =
                        IF ~trendlineStates[id]
                          THEN [chart EXCEPT
                                  !.originalData = [present |-> TRUE, data |-> chart.data],
                                  !.data = SmoothedData(chart.data,
                                                        DaysOr7(trendlineDaysAverage[id]))]
                        ELSE IF chart.originalData.present
                          THEN [chart EXCEPT !.data = chart.originalData.data,
                                             !.originalData = AbsentData]
                        ELSE chart]
  /\ UNCHANGED <<script, chartsList, trendlineDaysAverage, interpVars, averageVars,
                 pageVars, callVars>>

\* adjustSmoothness(chartId, delta) of crespomize/analytics.js.  The buttons
\* are hidden while the trendline is off; the handler called then returns.
AdjustSmoothness(id, delta) ==
  /\ script = "analytics"
  /\ Followed(id)
  /\ chartsList[id].trendline
  /\ lastCall' = Call("adjustSmoothness", id, delta)
  /\ LET chart       == chartInstances[id]
         currentDays == IF delta > 0 THEN SmoothnessUp(DaysOr7(trendlineDaysAverage[id]))
                        ELSE SmoothnessDown(DaysOr7(trendlineDaysAverage[id]))
         original    == OriginalOrData(chart.originalData, chart.data)
     IN  IF \/ Undefined(id)
            \/ ~trendlineStates[id]
            \/ currentDays = DaysOr7(trendlineDaysAverage[id])
           THEN UNCHANGED <<chartInstances, trendlineDaysAverage>>
           ELSE /\ trendlineDaysAverage' = [trendlineDaysAverage EXCEPT ![id] = currentDays]
                /\ chartInstances' =
                     [chartInstances EXCEPT ![id] =
                        [chart EXCEPT
                           !.data = SmoothedData(original, currentDays),
                           !.originalData = [present |-> TRUE, data |-> original]]]
  /\ UNCHANGED <<script, chartsList, trendlineStates, interpVars, averageVars,
                 pageVars, callVars>>

\* toggleLogScale(chartId) of crespomize-display.js
ToggleLogScale(id) ==
  /\ script = "display"
  /\ Followed(id)
  /\ lastCall' = Call("toggleLogScale", id, 0)
  /\ IF Undefined(id)
       THEN UNCHANGED <<chartInstances, chartsList>>
       ELSE /\ chartInstances' =
                 [chartInstances EXCEPT ![id].scales = ToggledScales(id, @)]
            /\ chartsList' =
                 [chartsList EXCEPT
                    ![id] = ToggledBadge(@, NewType(chartInstances[id].scales.y))]
  /\ UNCHANGED <<script, trendlineStates, trendlineDaysAverage, interpVars,
                 averageVars, pageVars, callVars>>

\* toggleTrendline(chartId) of crespomize-display.js
ToggleTrendlineDataset(id) ==
  /\ script = "display"
  /\ Followed(id)
  /\ chartsList[id].trendline
  /\ lastCall' = Call("toggleTrendline", id, 0)
  /\ IF Undefined(id)
       THEN UNCHANGED <<chartInstances, trendlineStates>>
       ELSE LET chart == chartInstances[id]
                showTrendline == ~trendlineStates[id]
            IN  /\ trendlineStates' = [trendlineStates EXCEPT ![id] = showTrendline]
                /\ chartInstances' =
                     [chartInstances EXCEPT ![id] =
                        [chart EXCEPT
                           !.trend.hidden = IF chart.trend.present THEN ~showTrendline
                                            ELSE @,
                           !.y1Display = IF chart.scales.y1 # "" THEN showTrendline
                                         ELSE @]]
  /\ UNCHANGED <<script, chartsList, trendlineDaysAverage, interpVars, averageVars,
                 pageVars, callVars>>

\* adjustTrendlineSmoothness(chartId, direction) of crespomize-display.js;
\* the width is followed up to MaxDays.
AdjustTrendlineSmoothness(id, direction) ==
  /\ script = "display"
  /\ Followed(id)
  /\ chartsList[id].trendline
  /\ DaysOr7(trendlineDaysAverage[id]) + direction <= MaxDays
  /\ lastCall' = Call("adjustTrendlineSmoothness", id, direction)
  /\ IF Undefined(id)
       THEN UNCHANGED <<chartInstances, trendlineDaysAverage>>
       ELSE LET chart == chartInstances[id]
                daysAverage == AdjustedDays(DaysOr7(trendlineDaysAverage[id]), direction)
            IN  /\ trendlineDaysAverage' =
                     [trendlineDaysAverage EXCEPT ![id] = daysAverage]
                /\ chartInstances' =
                     [chartInstances EXCEPT ![id] =
                        [chart EXCEPT
                           !.trend.data = IF chart.trend.present
                                            THEN TrendlineData(chart.data, daysAverage)
                                            ELSE @]]
  /\ UNCHANGED <<script, chartsList, trendlineStates, interpVars, averageVars,
                 pageVars, callVars>>

(***************************************************************************)
(* The callbacks selectTimeRange hands to setTimeout.  The timers have the *)
(* same delay, so the callbacks run in the order they were set.  The       *)
(* callback takes the label from the days of its own call and calls        *)
(* renderDashboard, which reads the accountData of the page.               *)
(***************************************************************************)
RangeText(range) ==
  IF range.all THEN "(All Time)"
  ELSE IF range.days = 365 THEN "(Last 1 Year)"
  ELSE IF range.days = 180 THEN "(Last 6 Months)"
  ELSE IF range.days = 30 THEN "(Last 1 Month)"
  ELSE ""

\* renderDashboard().  crespomize-display.js empties chartInstances,
\* trendlineStates and trendlineDaysAverage first, and a TypeError of its
\* statistics leaves #chartsList as it was; crespomize/analytics.js empties
\* #chartsList only, so the entries of a chart it does not create again
\* stay in the three objects.  trendlineStates and trendlineDaysAverage
\* are set by createChart and by createTimeBasedChart with the trendline.
RenderDashboard ==
  LET created == IF script = "display"
                   THEN renderDashboardDisplay(selectedPlatform, accountData)
                   ELSE renderDashboardAnalytics(selectedPlatform, accountData)
  IN  IF RenderThrows(script, isMoonMediaTotal, accountData)
        THEN /\ chartInstances' = [id \in ChartIds |-> NoChart]
             /\ trendlineStates' = [id \in ChartIds |-> FALSE]
             /\ trendlineDaysAverage' = [id \in ChartIds |-> 0]
             /\ UNCHANGED <<chartsList, renderedData>>
      ELSE /\ renderedData' = accountData
           /\ chartsList' = [id \in ChartIds |-> created[id].header]
           /\ IF script = "display"
                THEN /\ chartInstances' = [id \in ChartIds |-> created[id].chart]
                     /\ trendlineStates' = [id \in ChartIds |-> FALSE]
                     /\ trendlineDaysAverage' =
                          [id \in ChartIds |->
                             IF created[id].header.trendline THEN 7 ELSE 0]
                ELSE /\ chartInstances' =
                          [id \in ChartIds |->
                             IF created[id].chart.type # "" THEN created[id].chart
                             ELSE chartInstances[id]]
                     /\ trendlineStates' =
                          [id \in ChartIds |->
                             IF created[id].chart.type # "" THEN FALSE
                             ELSE trendlineStates[id]]
                     /\ trendlineDaysAverage' =
                          [id \in ChartIds |->
                             IF created[id].chart.type # "" THEN 7
                             ELSE trendlineDaysAverage[id]]

\* The callback of the oldest timer.
TimerFires ==
  /\ Idle
  /\ timers # <<>>
  /\ timeRangeLabel' = RangeText(Head(timers))
  /\ timers' = Tail(timers)
  /\ RenderDashboard
  /\ lastCall' = NoCall
  /\ UNCHANGED <<selectedPlatform, workbookData, selectedAccount, isMoonMediaTotal,
                 selectedTimeRange, accountData, uncaught, rowIndex, parseState,
                 pendingFetches, accountSelect, script, interpVars, averageVars,
                 callVars>>

(***************************************************************************)
(* Specifications.  accountData starts as the object {} (no property).     *)
(***************************************************************************)
InitInterp0 ==
  /\ historyArray = <<>>
  /\ interpolated = <<>>
  /\ i = 1

\* The value of a call that has not been made, and of one that returned v.
NotCalled == [called |-> FALSE, value |-> <<>>]

Returned(v) == [called |-> TRUE, value |-> v]

\* No call of filterDataByTimeRange or shouldUseLogScale is under study.
InitCalls0 ==
  /\ filterVideos = <<>>
  /\ filterRange = RangeAll
  /\ filterResult = NotCalled
  /\ scaleData = <<>>
  /\ scaleResult = NotCalled
  /\ validInput = InvalidDate
  /\ validResult = NotCalled


InitAverage0 ==
  /\ data = <<>>
  /\ days = 7
  /\ result = <<>>

InitPage0 ==
  /\ selectedPlatform = ""
  /\ workbookData = <<>>
  /\ selectedAccount = 0
  /\ isMoonMediaTotal = FALSE
  /\ selectedTimeRange = RangeAll
  /\ accountData = <<>>
  /\ uncaught = FALSE
  /\ rowIndex = 0
  /\ parseState = InitialParseState
  /\ pendingFetches = <<>>
  /\ accountSelect = [shows |-> "", accounts |-> 0]
  /\ timers = <<>>
  /\ timeRangeLabel = ""
  /\ renderedData = <<>>

\* The page of crespomize/analytics.js before renderDashboard has run.
InitChart0 ==
  /\ script = "analytics"
  /\ chartInstances = [id \in ChartIds |-> NoChart]
  /\ chartsList = [id \in ChartIds |-> NoHeader]
  /\ trendlineStates = [id \in ChartIds |-> FALSE]
  /\ trendlineDaysAverage = [id \in ChartIds |-> 0]
  /\ lastCall = NoCall

\* Calls of interpolateHistoricalData.
InitInterp ==
  /\ historyArray \in Histories
  /\ interpolated = historyArray
  /\ i = 1
  /\ InitAverage0
  /\ InitPage0
  /\ InitCalls0
  /\ InitChart0

NextInterp == InterpStep

SpecInterp == InitInterp /\ [][NextInterp]_vars

\* Calls of calculateMovingAverageByDays.
InitAverage ==
  /\ data \in SeriesSet
  /\ days \in WindowDays
  /\ result = <<>>
  /\ InitInterp0
  /\ InitPage0
  /\ InitCalls0
  /\ InitChart0

NextAverage == AverageStep

SpecAverage == InitAverage /\ [][NextAverage]_vars

\* Time-range selections on one account of a loaded workbook.  The
\* selections follow each other within the delay of the first timer: the
\* callbacks are steps of SpecChart.
InitAccount ==
  /\ selectedPlatform \in Platforms
  /\ \E sheet \in AccountSheets(selectedPlatform) : workbookData = <<sheet>>
  /\ selectedAccount = 1
  /\ isMoonMediaTotal = FALSE
  /\ selectedTimeRange = RangeAll
  /\ accountData = <<>>
  /\ uncaught = FALSE
  /\ rowIndex = 0
  /\ parseState = InitialParseState
  /\ pendingFetches = <<>>
  /\ accountSelect = [shows |-> selectedPlatform, accounts |-> Len(workbookData)]
  /\ timers = <<>>
  /\ timeRangeLabel = ""
  /\ renderedData = <<>>
  /\ InitCalls0
  /\ InitInterp0
  /\ InitAverage0
  /\ InitChart0

NextAccount ==
  \/ \E range \in TimeRanges : SelectTimeRange(range)
  \/ ParseRow
  \/ ParseFinish

SpecAccount == InitAccount /\ [][NextAccount]_vars

\* Time-range selections on "All MoonMedia" of a loaded workbook.
InitTotal ==
  /\ selectedPlatform \in Platforms
  /\ workbookData \in TotalWorkbooks(selectedPlatform)
  /\ selectedAccount = MoonMediaTotal
  /\ isMoonMediaTotal = TRUE
  /\ selectedTimeRange = RangeAll
  /\ accountData = <<>>
  /\ uncaught = FALSE
  /\ rowIndex = 0
  /\ parseState = InitialParseState
  /\ pendingFetches = <<>>
  /\ accountSelect = [shows |-> selectedPlatform, accounts |-> Len(workbookData)]
  /\ timers = <<>>
  /\ timeRangeLabel = ""
  /\ renderedData = <<>>
  /\ InitCalls0
  /\ InitInterp0
  /\ InitAverage0
  /\ InitChart0

NextTotal == \E range \in TimeRanges : SelectTimeRangeTotal(range)

SpecTotal == InitTotal /\ [][NextTotal]_vars

\* Time-range selections on "All MoonMedia" of workbooks of up to 102 posts.
\* The letters of the ids of the posts, which have two parts.
PostLetters == <<"a", "b", "c", "d", "e", "f", "g", "h", "j", "k", "m">>

PostId(n) ==
  <<PostLetters[(n \div Len(PostLetters)) + 1], PostLetters[(n % Len(PostLetters)) + 1]>>

\* The Date row and the Views row of the posts from + 1, ..., from + count:
\* post n has n views and is dated n hours after the hour that lies
\* LastPostsCount / 2 hours before the start of the 30-day range.
PostRun(platform, from, count) ==
  [r \in 1..(2 * count) |->
     LET n == from + (r + 1) \div 2
     IN  IF r % 2 = 1
           THEN Row(<<PostPrefix(platform)>> \o PostId(n) \o <<DateMetric(platform)>>,
                    <<DateText(setDate(Now, 0 - 30) - LastPostsCount \div 2 + n)>>)
           ELSE Row(<<PostPrefix(platform)>> \o PostId(n) \o <<ViewsMetric(platform)>>,
                    <<Num(n)>>)]

\* Workbooks of LastPostsCount posts in two accounts, of one more in one
\* account and of two more in two accounts, the later posts in the first;
\* of no post, of one post, and of two posts of the same date.
LastPostsWorkbooks(platform) ==
  {<<PostSheet(PostRun(platform, 0, LastPostsCount \div 2)),
     PostSheet(PostRun(platform, LastPostsCount \div 2, LastPostsCount \div 2))>>,
   <<PostSheet(PostRun(platform, 0, LastPostsCount + 1))>>,
   <<PostSheet(PostRun(platform, LastPostsCount \div 2 + 1, LastPostsCount \div 2 + 1)),
     PostSheet(PostRun(platform, 0, LastPostsCount \div 2 + 1))>>,
   <<PostSheet(<<>>)>>,
   <<PostSheet(PostRun(platform, 0, 1))>>,
   <<PostSheet(PostRun(platform, 0, 1)), PostSheet(PostRun(platform, 0, 1))>>}

InitLastPosts ==
  /\ selectedPlatform \in Platforms
  /\ workbookData \in LastPostsWorkbooks(selectedPlatform)
  /\ selectedAccount = MoonMediaTotal
  /\ isMoonMediaTotal = TRUE
  /\ selectedTimeRange = RangeAll
  /\ accountData = <<>>
  /\ uncaught = FALSE
  /\ rowIndex = 0
  /\ parseState = InitialParseState
  /\ pendingFetches = <<>>
  /\ accountSelect = [shows |-> selectedPlatform, accounts |-> Len(workbookData)]
  /\ timers = <<>>
  /\ timeRangeLabel = ""
  /\ renderedData = <<>>
  /\ InitCalls0
  /\ InitInterp0
  /\ InitAverage0
  /\ InitChart0

\* 'all', the range that leaves out the posts of the first hours, and one
\* that holds them all.
LastPostsRanges == {RangeAll, RangeDays(30), RangeDays(365)}

NextLastPosts == \E range \in LastPostsRanges : SelectTimeRangeTotal(range)

SpecLastPosts == InitLastPosts /\ [][NextLastPosts]_vars

\* A video of an account's snapshot, taken at hour t with the given views.
PostAt(t, views) ==
  [date |-> [nan |-> FALSE, t |-> t], views |-> views, likes |-> 0,
   comments |-> 0, shares |-> 0, engagement |-> 0]

\* Calls of filterDataByTimeRange.  The videos are dated in the last days,
\* exactly 30 days before Now and an hour earlier, 200 and 455 days before
\* Now, or carry an Invalid Date.
FilterItems ==
  {PostAt(Day1, 5), PostAt(setDate(Now, 0 - 30), 1), PostAt(setDate(Now, 0 - 30) - 1, 2),
   PostAt(DayOld, 3), PostAt(DayOlder, 4), [PostAt(0, 6) EXCEPT !.date = InvalidDate]}

\* The call returns a new array, or videos itself for 'all'; videos is not
\* written.
CallFilter ==
  /\ ~filterResult.called
  /\ filterResult' = Returned(filterDataByTimeRange(filterVideos, filterRange))
  /\ UNCHANGED <<filterVideos, filterRange, scaleData, scaleResult, validInput,
                 validResult,
                 interpVars, averageVars, pageVars, chartVars>>

InitFilter ==
  /\ filterVideos \in SeqUpTo(FilterItems, MaxSeries)
  /\ filterRange \in TimeRanges
  /\ filterResult = NotCalled
  /\ scaleData = <<>>
  /\ scaleResult = NotCalled
  /\ validInput = InvalidDate
  /\ validResult = NotCalled
  /\ InitInterp0
  /\ InitAverage0
  /\ InitPage0
  /\ InitChart0

NextFilter == CallFilter

SpecFilter == InitFilter /\ [][NextFilter]_vars

\* Calls of shouldUseLogScale on the y values of a chart's data.
ScaleValues == {0 - 5, 0, 1, 10, 100, 101}

ScaleInputs ==
  SeqUpTo(ScaleValues, MaxValues) \cup {<<1, 1, 1, 1000>>, <<10, 12, 9, 11>>}

CallScale ==
  /\ ~scaleResult.called
  /\ scaleResult' = Returned(shouldUseLogScale(scaleData))
  /\ UNCHANGED <<scaleData, filterVideos, filterRange, filterResult, validInput,
                 validResult,
                 interpVars, averageVars, pageVars, chartVars>>

InitScale ==
  /\ scaleData \in ScaleInputs
  /\ scaleResult = NotCalled
  /\ validInput = InvalidDate
  /\ validResult = NotCalled
  /\ filterVideos = <<>>
  /\ filterRange = RangeAll
  /\ filterResult = NotCalled
  /\ InitInterp0
  /\ InitAverage0
  /\ InitPage0
  /\ InitChart0

NextScale == CallScale

SpecScale == InitScale /\ [][NextScale]_vars

\* Calls of isValidDate next to selections on "All MoonMedia" of workbooks
\* whose header and post date cells hold texts, numbers and dates of years
\* the validator rejects.  The arguments are Dates at the first and last
\* hour of the accepted years, the hours next to them, the epoch and an
\* Invalid Date, and cell values that are no Date.
ValidInputs ==
  {[nan |-> FALSE, t |-> t] :
     t \in {At(18262, 0) - 1, At(18262, 0), At(21184, 0) - 1, At(21184, 0), Day1, 0}}
  \cup {InvalidDate, Text, Undef, EmptyStr, Num(45000), DateText(Day1)}

GateSheets(platform) ==
  {HistorySheet(platform, "future", <<Num(5), Num(8), Num(5)>>),
   HistorySheet(platform, "number", <<Num(5), Num(8), Num(5)>>),
   HistorySheet(platform, "text", <<Num(8), Num(5)>>),
   PostSheet(<<Row(<<PostPrefix(platform), "a", DateMetric(platform)>>, <<DateText(DayFuture)>>),
               Row(<<PostPrefix(platform), "a", ViewsMetric(platform)>>, <<Num(9)>>),
               Row(<<PostPrefix(platform), "b", DateMetric(platform)>>, <<DateText(Day3)>>),
               Row(<<PostPrefix(platform), "b", ViewsMetric(platform)>>, <<Num(3)>>),
               Row(<<PostPrefix(platform), "c", DateMetric(platform)>>, <<Num(45000)>>)>>)}

CallValid(date) ==
  /\ ~validResult.called
  /\ validInput' = date
  /\ validResult' = Returned(isValidDate(date))
  /\ UNCHANGED <<filterVideos, filterRange, filterResult, scaleData, scaleResult,
                 interpVars, averageVars, pageVars, chartVars>>

InitGate ==
  /\ selectedPlatform \in Platforms
  /\ workbookData \in SeqUpTo(GateSheets(selectedPlatform), MaxAccounts) \ {<<>>}
  /\ selectedAccount = MoonMediaTotal
  /\ isMoonMediaTotal = TRUE
  /\ selectedTimeRange = RangeAll
  /\ accountData = <<>>
  /\ uncaught = FALSE
  /\ rowIndex = 0
  /\ parseState = InitialParseState
  /\ pendingFetches = <<>>
  /\ accountSelect = [shows |-> selectedPlatform, accounts |-> Len(workbookData)]
  /\ timers = <<>>
  /\ timeRangeLabel = ""
  /\ renderedData = <<>>
  /\ InitCalls0
  /\ InitInterp0
  /\ InitAverage0
  /\ InitChart0

NextGate ==
  \/ \E range \in TimeRanges : SelectTimeRangeTotal(range)
  \/ \E date \in ValidInputs : CallValid(date)

SpecGate == InitGate /\ [][NextGate]_vars

(***************************************************************************)
(* Platform selection and the loading of the workbook.  loadSheetData      *)
(* reads selectedPlatform before its first await and assigns workbookData  *)
(* after the response has arrived; fetches in flight complete in any       *)
(* order.  workbookData = null is the workbook without sheets <<>>; a      *)
(* served workbook has a sheet.                                            *)
(***************************************************************************)
\* The workbook the export of SHEET_IDS[platform] serves.
WorkbookOf(platform) == <<HistorySheet(platform, "sorted", <<Num(5)>>)>>

RemoveAt(s, k) == [p \in 1..(Len(s) - 1) |-> IF p < k THEN s[p] ELSE s[p + 1]]

\* selectPlatform(platform), up to the first await of loadSheetData.
SelectPlatform(platform) ==
  /\ Len(pendingFetches) < MaxFetches
  /\ selectedPlatform' = platform
  /\ accountSelect' = [shows |-> "loading", accounts |-> 0]
  /\ pendingFetches' = Append(pendingFetches, platform)
  /\ UNCHANGED <<workbookData, selectedAccount, isMoonMediaTotal, selectedTimeRange,
                 accountData, uncaught, rowIndex, parseState,
                 interpVars, averageVars, callVars, chartVars,
                 timers, timeRangeLabel, renderedData>>

\* backToStep(0)
BackToStep0 ==
  /\ selectedPlatform' = ""
  /\ workbookData' = <<>>
  /\ UNCHANGED <<selectedAccount, isMoonMediaTotal, selectedTimeRange, accountData,
                 uncaught, rowIndex, parseState, pendingFetches,
                 accountSelect, interpVars, averageVars, callVars, chartVars,
                 timers, timeRangeLabel, renderedData>>

\* The rest of loadSheetData once the response of fetch k has arrived.
FetchCompletes(k) ==
  /\ k \in 1..Len(pendingFetches)
  /\ workbookData' = WorkbookOf(pendingFetches[k])
  /\ accountSelect' = [shows |-> pendingFetches[k],
                       accounts |-> Len(WorkbookOf(pendingFetches[k]))]
  /\ pendingFetches' = RemoveAt(pendingFetches, k)
  /\ UNCHANGED <<selectedPlatform, selectedAccount, isMoonMediaTotal,
                 selectedTimeRange, accountData, uncaught, rowIndex, parseState,
                 interpVars, averageVars, callVars, chartVars,
                 timers, timeRangeLabel, renderedData>>

\* The catch block of loadSheetData when fetch k is rejected.
FetchFails(k) ==
  /\ k \in 1..Len(pendingFetches)
  /\ accountSelect' = [shows |-> "error", accounts |-> 0]
  /\ pendingFetches' = RemoveAt(pendingFetches, k)
  /\ UNCHANGED <<selectedPlatform, workbookData, selectedAccount, isMoonMediaTotal,
                 selectedTimeRange, accountData, uncaught, rowIndex, parseState,
                 interpVars, averageVars, callVars, chartVars,
                 timers, timeRangeLabel, renderedData>>

\* The page as loaded: no platform selected, workbookData null.
InitLoad ==
  /\ selectedPlatform = ""
  /\ workbookData = <<>>
  /\ selectedAccount = 0
  /\ isMoonMediaTotal = FALSE
  /\ selectedTimeRange = RangeAll
  /\ accountData = <<>>
  /\ uncaught = FALSE
  /\ rowIndex = 0
  /\ parseState = InitialParseState
  /\ pendingFetches = <<>>
  /\ accountSelect = [shows |-> "", accounts |-> 0]
  /\ timers = <<>>
  /\ timeRangeLabel = ""
  /\ renderedData = <<>>
  /\ InitCalls0
  /\ InitInterp0
  /\ InitAverage0
  /\ InitChart0

NextLoad ==
  \/ \E platform \in Platforms : SelectPlatform(platform)
  \/ BackToStep0
  \/ \E k \in 1..MaxFetches : FetchCompletes(k) \/ FetchFails(k)

SpecLoad == InitLoad /\ [][NextLoad]_vars

(***************************************************************************)
(* The dashboard of either page: time-range selections on "All MoonMedia"  *)
(* of a loaded workbook, their timer callbacks with renderDashboard, and   *)
(* the handlers of the charts on the page.                                 *)
(***************************************************************************)
Scripts == {"analytics", "display"}

\* The arguments of the - and + buttons.
Deltas == {0 - 1, 1}

ChartRanges == {RangeAll, RangeDays(30)}

\* The attribute rows of a post: its date, views, the likes of each scrape,
\* comments, shares (TikTok only) and engagement rate.
PostAttributes(platform, id, date, views, likes, comments, shares, engagement) ==
  IF platform = "instagram"
    THEN <<Row(<<"reel", id, "date">>, <<DateText(date)>>),
           Row(<<"reel", id, "views">>, <<Num(views)>>),
           Row(<<"reel", id, "likes">>, likes),
           Row(<<"reel", id, "comments">>, <<Num(comments)>>),
           Row(<<"reel", id, "engagement">>, <<Num(engagement)>>)>>
    ELSE <<Row(<<"post", id, "Date">>, <<DateText(date)>>),
           Row(<<"post", id, "Views">>, <<Num(views)>>),
           Row(<<"post", id, "Likes">>, likes),
           Row(<<"post", id, "Comments">>, <<Num(comments)>>),
           Row(<<"post", id, "Shares">>, <<Num(shares)>>),
           Row(<<"post", id, "EngagementRate">>, <<Num(engagement)>>)>>

\* A workbook of one account scraped on three days, five and two days
\* apart: its followers, its total likes (a row on TikTok, the sum of the
\* reels' likes on Instagram) and three posts, one 200 days old and two of
\* the last week a day and a half apart.
ChartWorkbook(platform) ==
  <<<<Row(<<>>, <<DateText(DayRecent), DateText(Day1), DateText(Day3)>>),
      Row(<<"followers">>, <<Num(5), Num(8), Num(5)>>)>>
    \o (IF platform = "instagram" THEN <<>>
        ELSE <<Row(<<"total", "likes">>, <<Num(2), Num(300), Num(900)>>)>>)
    \o PostAttributes(platform, "a", DayOld, 7, <<Num(1), Num(1), Num(1)>>, 0, 2, 3)
    \o PostAttributes(platform, "b", Day1, 900, <<Num(2), Num(30), Num(40)>>, 5, 0, 6)
    \o PostAttributes(platform, "c", Day2 + 12, 30, <<EmptyStr, Num(1), Num(2)>>, 1, 1, 9)>>

InitChart ==
  /\ script \in Scripts
  /\ selectedPlatform \in Platforms
  /\ workbookData = ChartWorkbook(selectedPlatform)
  /\ selectedAccount = MoonMediaTotal
  /\ isMoonMediaTotal = TRUE
  /\ selectedTimeRange = RangeAll
  /\ accountData = <<>>
  /\ uncaught = FALSE
  /\ rowIndex = 0
  /\ parseState = InitialParseState
  /\ pendingFetches = <<>>
  /\ accountSelect = [shows |-> selectedPlatform, accounts |-> Len(workbookData)]
  /\ timers = <<>>
  /\ timeRangeLabel = ""
  /\ renderedData = <<>>
  /\ chartInstances = [id \in ChartIds |-> NoChart]
  /\ chartsList = [id \in ChartIds |-> NoHeader]
  /\ trendlineStates = [id \in ChartIds |-> FALSE]
  /\ trendlineDaysAverage = [id \in ChartIds |-> 0]
  /\ lastCall = NoCall
  /\ InitCalls0
  /\ InitInterp0
  /\ InitAverage0

\* The selections that are followed: any number in a row on a page whose
\* charts have not been operated, and one after a chart has been operated.
SelectRange(range) ==
  /\ lastCall = NoCall \/ timers = <<>>
  /\ SelectTimeRangeTotal(range)

NextChart ==
  \/ \E range \in ChartRanges : SelectRange(range)
  \/ TimerFires
  \/ \E id \in ChartIds : ToggleScale(id)
  \/ \E id \in ChartIds : ToggleTrendline(id)
  \/ \E id \in ChartIds, delta \in Deltas : AdjustSmoothness(id, delta)
  \/ \E id \in ChartIds : ToggleLogScale(id)
  \/ \E id \in ChartIds : ToggleTrendlineDataset(id)
  \/ \E id \in ChartIds, direction \in Deltas : AdjustTrendlineSmoothness(id, direction)

SpecChart == InitChart /\ [][NextChart]_vars

\* Choices of an account or of "All MoonMedia" and time-range selections on
\* a loaded workbook.
\* Workbooks of two accounts: histories and posts, two histories, and a
\* sheet without rows beside a sheet with a post.
SelectWorkbooks(platform) ==
  {<<HistorySheet(platform, "sorted", <<Num(5), Num(8)>>)
       \o <<Row(<<PostPrefix(platform), "m", DateMetric(platform)>>, <<DateText(Day2)>>),
            Row(<<PostPrefix(platform), "m", ViewsMetric(platform)>>, <<Num(2)>>)>>,
     PostSheet(<<Row(<<PostPrefix(platform), "a", DateMetric(platform)>>, <<DateText(DayOld)>>),
                 Row(<<PostPrefix(platform), "a", ViewsMetric(platform)>>, <<Num(9)>>)>>)>>,
   <<HistorySheet(platform, "sorted", <<Num(5), Num(0), Num(8)>>),
     HistorySheet(platform, "text", <<Num(8), Num(5), Num(5)>>)>>,
   <<EmptySheet,
     PostSheet(<<Row(<<PostPrefix(platform), "a", DateMetric(platform)>>, <<DateText(Day1)>>),
                 Row(<<PostPrefix(platform), "a", ViewsMetric(platform)>>, <<Num(7)>>)>>)>>}

\* The page once loadSheetData has listed the accounts of the workbook.
InitSelect ==
  /\ selectedPlatform \in Platforms
  /\ workbookData \in SelectWorkbooks(selectedPlatform)
  /\ selectedAccount = 0
  /\ isMoonMediaTotal = FALSE
  /\ selectedTimeRange = RangeAll
  /\ accountData = <<>>
  /\ uncaught = FALSE
  /\ rowIndex = 0
  /\ parseState = InitialParseState
  /\ pendingFetches = <<>>
  /\ accountSelect = [shows |-> selectedPlatform, accounts |-> Len(workbookData)]
  /\ timers = <<>>
  /\ timeRangeLabel = ""
  /\ renderedData = <<>>
  /\ InitCalls0
  /\ InitInterp0
  /\ InitAverage0
  /\ InitChart0

NextSelect ==
  \/ \E value \in AccountOptions : NextStep1(value)
  \/ NextAccount
  \/ NextTotal

SpecSelect == InitSelect /\ [][NextSelect]_vars

(***************************************************************************)
(* Properties.  They are stated with their own definitions of the notions  *)
(* they use, apart from the operations they are about.                     *)
(***************************************************************************)
\* accountData holds a snapshot (it is no longer {}).
HasSnapshot == "followers" \in DOMAIN accountData

\* accountData holds an AggregateSnapshot.
TotalDone == "accountCount" \in DOMAIN accountData

\* The AccountSnapshot of every sheet of the workbook under the selection.
AccountSnapshots ==
  [k \in 1..Len(workbookData) |->
     parseAccountData(selectedPlatform, workbookData[k], selectedTimeRange)]

Timestamps(history) == {history[p].date.t : p \in 1..Len(history)}

PointsAt(history, t) == Cardinality({p \in 1..Len(history) : history[p].date.t = t})

ValueAt(history, t) ==
  SumSeq([p \in 1..Len(history) |-> IF history[p].date.t = t THEN history[p].value ELSE 0])

\* The points all accounts report at t in the history named field, and the
\* accounts that report one.
ReportedPoints(field, t) ==
  SumSeq([k \in 1..Len(workbookData) |-> PointsAt(AccountSnapshots[k][field], t)])

ReportingAccounts(field, t) ==
  {k \in 1..Len(workbookData) : t \in Timestamps(AccountSnapshots[k][field])}

ReportedTimestamps(field) ==
  UNION {Timestamps(AccountSnapshots[k][field]) : k \in 1..Len(workbookData)}

FullCoverage(field) ==
  /\ Timestamps(accountData[field]) =
       {t \in ReportedTimestamps(field) :
          ReportingAccounts(field, t) = 1..Len(workbookData)}
  /\ \A p \in 1..Len(accountData[field]) :
       accountData[field][p].value =
         SumSeq([k \in 1..Len(workbookData) |->
                   ValueAt(AccountSnapshots[k][field], accountData[field][p].date.t)])

\* C1: the timestamps of the combined followersHistory and totalLikesHistory
\* are exactly those at which every account has a point, and each combined
\* value is the sum of the accounts' values at its timestamp.
C1_FullCoverage ==
  TotalDone => FullCoverage("followersHistory") /\ FullCoverage("totalLikesHistory")

\* The views of the posts of all accounts whose date lies in the selected range.
InSelectedRange(t) ==
  selectedTimeRange.all \/ t >= Now - selectedTimeRange.days * HoursPerDay

ViewsOf(videos, inRange(_)) ==
  SumSeq([p \in 1..Len(videos) |-> IF inRange(videos[p].date.t) THEN videos[p].views ELSE 0])

AllTimeVideos(k) == parseAccountData(selectedPlatform, workbookData[k], RangeAll).videos

AllTimeViews ==
  SumSeq([k \in 1..Len(workbookData) |-> ViewsOf(AllTimeVideos(k), LAMBDA t : TRUE)])

\* C6: totalViews is the all-time sum of views, whatever the range:
\* it equals the totalViews of parseMoonMediaTotal('all').
C6_TotalViewsAllTime ==
  TotalDone =>
    /\ accountData.totalViews = AllTimeViews
    /\ accountData.totalViews =
         parseMoonMediaTotal(selectedPlatform, workbookData, RangeAll).totalViews

CombinedFields == {"followersHistory", "totalLikesHistory"}

\* C7 as stated: no timestamp at which fewer than 2 accounts report appears
\* in a combined history, whatever the number of sheets.
C7_AtLeastTwoAccounts ==
  TotalDone =>
    \A field \in CombinedFields : \A t \in Timestamps(accountData[field]) :
      Cardinality(ReportingAccounts(field, t)) >= 2

\* C7 amended: a timestamp appears in a combined history only if the points
\* reported at it number exactly the sheets of the workbook, so with two or
\* more sheets none with fewer than 2 reported points appears; in a
\* one-sheet workbook every timestamp the sheet reports once appears.
C7_PointsEqualSheets ==
  TotalDone =>
    \A field \in CombinedFields :
      /\ \A t \in Timestamps(accountData[field]) :
           /\ ReportedPoints(field, t) = Len(workbookData)
           /\ Len(workbookData) >= 2 => ReportedPoints(field, t) >= 2
      /\ Len(workbookData) = 1 =>
           \A t \in ReportedTimestamps(field) :
             ReportedPoints(field, t) = 1 => t \in Timestamps(accountData[field])

\* C7 witness: a two-sheet workbook with a timestamp that only one account
\* reports, left out of a combined history that holds another timestamp.
C7_Witness ==
  /\ TotalDone
  /\ Len(workbookData) = 2
  /\ \E t \in ReportedTimestamps("followersHistory") :
       /\ ReportedPoints("followersHistory", t) = 1
       /\ t \notin Timestamps(accountData.followersHistory)
  /\ accountData.followersHistory # <<>>

\* A date the Date Validator accepts: a Date with a time value whose year
\* lies in 2020 .. currentYear + 1.
AcceptedDate(date) ==
  /\ ~date.nan
  /\ getFullYear(date.t) \in 2020..(getFullYear(Now) + 1)

PositiveAndDated(history) ==
  \A p \in 1..Len(history) : history[p].value > 0 /\ AcceptedDate(history[p].date)

\* C3: every point of the followersHistory and totalLikesHistory returned
\* for an account has value > 0 and a date the Date Validator accepts.
C3_HistoriesPositiveValid ==
  (HasSnapshot /\ ~TotalDone) =>
    /\ PositiveAndDated(accountData.followersHistory)
    /\ PositiveAndDated(accountData.totalLikesHistory)

\* The followers cells of the selected sheet, as numbers.
FollowersCells ==
  LET rows == SelectSeq(SelectedSheet, LAMBDA row : row.name = <<"followers">>)
  IN  IF rows = <<>> THEN <<>> ELSE Last(rows).cells

\* C3 witness: a followers row with a negative cell, a gap and a valid cell
\* under accepted dates has been normalized to a history that lost a point.
C3_Witness ==
  /\ HasSnapshot
  /\ ~TotalDone
  /\ \E a, b, c \in 1..Len(FollowersCells) :
       /\ FollowersCells[a] = Num(0)
       /\ FollowersCells[b].k = "num" /\ FollowersCells[b].n < 0
       /\ FollowersCells[c].k = "num" /\ FollowersCells[c].n > 0
  /\ Len(accountData.followersHistory) >= 2
  /\ Len(accountData.followersHistory) < Len(FollowersCells)

\* C8: a selection on a sheet without rows ends in a no-data snapshot, never
\* in an exception that leaves the handler.
C8_EmptySheetNoException ==
  /\ ~uncaught
  /\ (HasSnapshot /\ ~TotalDone /\ SelectedSheet = EmptySheet) =>
       /\ accountData.videos = <<>>
       /\ accountData.followersHistory = <<>>
       /\ accountData.totalLikesHistory = <<>>
       /\ accountData.followers = 0 /\ accountData.totalLikes = 0
       /\ accountData.postsScraped = 0

StrictlyAscending(history) ==
  \A p \in 1..(Len(history) - 1) : history[p].date.t < history[p + 1].date.t

\* C9: the followersHistory and totalLikesHistory of an account are ordered
\* ascending by date and hold at most one point per timestamp.
C9_HistoriesOrderedDeduplicated ==
  (HasSnapshot /\ ~TotalDone) =>
    /\ StrictlyAscending(accountData.followersHistory)
    /\ StrictlyAscending(accountData.totalLikesHistory)

\* A blank cell: null, undefined or the empty string.
Blank(cell) == cell = Undef \/ cell = Hole \/ cell = EmptyStr

HasValue(cells) == \E c \in 1..Len(cells) : ~Blank(cells[c])

\* The right-most non-blank cell of a row that has one.
RightMost(cells) ==
  cells[CHOOSE c \in 1..Len(cells) :
          ~Blank(cells[c]) /\ \A d \in (c + 1)..Len(cells) : Blank(cells[d])]

\* The name of a row that carries attribute field of the post / reel id.
AttributeRowName(platform, id, field) ==
  IF platform = "instagram"
    THEN <<"reel">> \o id \o
         <<CASE field = "Date"           -> "date"
             [] field = "Views"          -> "views"
             [] field = "Likes"          -> "likes"
             [] field = "Comments"       -> "comments"
             [] field = "EngagementRate" -> "engagement"
             [] OTHER                    -> "none">>
    ELSE <<"post">> \o id \o <<field>>

\* The rows before rowIndex that carry the attribute and hold a value.
\* The row name is one of attribute field of the post / reel id (the names
\* post_Date and post__Date are both of the id '').
NamesAttribute(name, id, field) ==
  /\ Len(name) >= 2
  /\ Head(name) = PostPrefix(selectedPlatform)
  /\ VideoIdOf(name) = id
  /\ Last(name) = Last(AttributeRowName(selectedPlatform, id, field))

AttributeRows(id, field) ==
  {r \in 2..(rowIndex - 1) :
     /\ NamesAttribute(SelectedSheet[r].name, id, field)
     /\ HasValue(SelectedSheet[r].cells)}

Minimum(S) == CHOOSE x \in S : \A y \in S : x <= y

\* The ids named by the rows of the selected sheet.
SheetIds ==
  {VideoIdOf(SelectedSheet[r].name) :
     r \in {q \in 2..Len(SelectedSheet) : Len(SelectedSheet[q].name) >= 2}}

VideoOf(st, id) ==
  LET hits == {p \in 1..Len(st.allVideosMap) : st.allVideosMap[p].id = id}
  IN  IF hits = {} THEN NewVideo(id) ELSE st.allVideosMap[CHOOSE p \in hits : TRUE]

RightMostOfFirstRow ==
  rowIndex >= 2 =>
    \A id \in SheetIds : \A field \in VideoFields :
      LET rows == AttributeRows(id, field)
      IN  IF rows = {}
            THEN VideoOf(parseState, id)[field] = Undef
            ELSE VideoOf(parseState, id)[field] =
                   RightMost(SelectedSheet[Minimum(rows)].cells)

NeverOverwritten ==
  (rowIndex >= 2 /\ rowIndex' > rowIndex) =>
    \A id \in SheetIds : \A field \in VideoFields :
      VideoOf(parseState, id)[field] # Undef =>
        VideoOf(parseState', id)[field] = VideoOf(parseState, id)[field]

\* C10: the value of an attribute of a post / reel is the right-most
\* non-blank cell of the first row of that attribute that holds one, and
\* once set it is not overwritten by any later step of the row loop.
C10_RightMostCellWins == [](RightMostOfFirstRow) /\ [][NeverOverwritten]_vars

\* C10 witness: two rows of one attribute that hold different right-most
\* values have both been processed.
C10_Witness ==
  /\ rowIndex >= 2
  /\ \E id \in SheetIds : \E field \in VideoFields :
       \E r1, r2 \in AttributeRows(id, field) :
         /\ r1 < r2
         /\ Len(SelectedSheet[r1].cells) >= 2
         /\ ~Blank(SelectedSheet[r1].cells[1])
         /\ SelectedSheet[r1].cells[1] # RightMost(SelectedSheet[r1].cells)
         /\ RightMost(SelectedSheet[r2].cells) # RightMost(SelectedSheet[r1].cells)

Values(history) == [p \in 1..Len(history) |-> history[p].value]

\* C2 as stated: the followers values [100, 0, 0, 200] are interpolated to
\* [100, 133, 166, 200].
C2_Scenario166 ==
  (InterpDone /\ Values(historyArray) = <<100, 0, 0, 200>>) =>
    Values(interpolated) = <<100, 133, 166, 200>>

\* C2 amended: the followers values [100, 0, 0, 200] are interpolated to
\* [100, 133, 167, 200] (166.67 rounds to 167).
C2_Scenario167 ==
  (InterpDone /\ Values(historyArray) = <<100, 0, 0, 200>>) =>
    Values(interpolated) = <<100, 133, 167, 200>>

\* C2 witness: the scenario's array has been interpolated.
C2_Witness ==
  /\ InterpDone
  /\ Values(historyArray) = <<100, 0, 0, 200>>
  /\ interpolated # historyArray

\* An entry to interpolate (a gap) and a valid entry (not a gap, value > 0).
Gap(item) == item.value = 0

Valid(item) == ~Gap(item) /\ item.value > 0

\* The maximal runs a..b of gaps of the input.
GapRuns ==
  {run \in (1..Len(historyArray)) \X (1..Len(historyArray)) :
     /\ run[1] <= run[2]
     /\ \A j \in run[1]..run[2] : Gap(historyArray[j])
     /\ (run[1] > 1 => ~Gap(historyArray[run[1] - 1]))
     /\ (run[2] < Len(historyArray) => ~Gap(historyArray[run[2] + 1]))}

ValidBefore(a) == {j \in 1..(a - 1) : Valid(historyArray[j])}

ValidAfter(b) == {j \in (b + 1)..Len(historyArray) : Valid(historyArray[j])}

Maximum(S) == CHOOSE x \in S : \A y \in S : x >= y

\* r is an integer nearest to num / den (den > 0).
Nearest(r, num, den) ==
  /\ 2 * (r * den - num) <= den
  /\ 2 * (num - r * den) <= den

\* C4: every entry k of a processed maximal run of m gaps that has a nearest
\* valid value prev before it and next after it holds
\* prev + (next - prev) * k / (m + 1), rounded to the nearest integer.
C4_LinearFill ==
  \A run \in GapRuns :
    (i > run[2] /\ ValidBefore(run[1]) # {} /\ ValidAfter(run[2]) # {}) =>
      LET prev == historyArray[Maximum(ValidBefore(run[1]))].value
          next == historyArray[Minimum(ValidAfter(run[2]))].value
          m    == run[2] - run[1] + 1
      IN  \A k \in 1..m :
            Nearest(interpolated[run[1] + k - 1].value,
                    prev * (m + 1) + (next - prev) * k, m + 1)

\* C4 witness: a run of two gaps between two different valid values has been
\* filled with two different values.
C4_Witness ==
  /\ InterpDone
  /\ \E run \in GapRuns :
       /\ run[2] = run[1] + 1
       /\ ValidBefore(run[1]) # {} /\ ValidAfter(run[2]) # {}
       /\ interpolated[run[1]].value # interpolated[run[2]].value

Unchanged(p) == result[p].x = data[p].x /\ result[p].num = data[p].y * result[p].den

\* C5 as stated: with windowDays = 1 the series is returned unchanged,
\* whatever the distances between its points.
C5_WindowOneIdentity ==
  (AverageDone /\ days = 1) => \A p \in 1..Len(data) : Unchanged(p)

\* Another point lies in the day that follows point p (bounds included).
FollowedWithinOneDay(p) ==
  \E q \in 1..Len(data) :
    q # p /\ data[q].x >= data[p].x /\ data[q].x <= data[p].x + HoursPerDay

\* C5 amended: with windowDays = 1 a point is returned unchanged when no
\* other point lies in the day that follows it (bounds included); otherwise
\* it gets the mean of the points of that day.
C5_WindowOneUnlessFollowed ==
  (AverageDone /\ days = 1) =>
    \A p \in 1..Len(data) :
      /\ result[p].x = data[p].x
      /\ ~FollowedWithinOneDay(p) => Unchanged(p)
      /\ LET window == {q \in 1..Len(data) :
                          data[q].x >= data[p].x /\ data[q].x <= data[p].x + HoursPerDay}
         IN  /\ result[p].den = Cardinality(window)
             /\ result[p].num = SumSeq([q \in 1..Len(data) |->
                                          IF q \in window THEN data[q].y ELSE 0])

\* C5 witness: a series of two or more points more than a day apart, with
\* different values, has been averaged with windowDays = 1.
C5_Witness ==
  /\ AverageDone
  /\ days = 1
  /\ Len(data) >= 2
  /\ \A p \in 1..Len(data) : ~FollowedWithinOneDay(p)
  /\ \E p, q \in 1..Len(data) : data[p].y # data[q].y

\* The entries of run hold the value v.
FilledWith(run, v) == \A j \in run[1]..run[2] : interpolated[j].value = v

\* C11: a processed maximal run of gaps that has a valid value only before
\* it holds the nearest such value in every entry, one that has a valid
\* value only after it holds the nearest such value in every entry, and one
\* that has neither holds the values it had.
C11_FlatFill ==
  \A run \in GapRuns :
    i > run[2] =>
      /\ (ValidBefore(run[1]) # {} /\ ValidAfter(run[2]) = {}) =>
           FilledWith(run, historyArray[Maximum(ValidBefore(run[1]))].value)
      /\ (ValidBefore(run[1]) = {} /\ ValidAfter(run[2]) # {}) =>
           FilledWith(run, historyArray[Minimum(ValidAfter(run[2]))].value)
      /\ (ValidBefore(run[1]) = {} /\ ValidAfter(run[2]) = {}) =>
           \A j \in run[1]..run[2] : interpolated[j] = historyArray[j]

\* C11 witness: an interpolated array with a run filled flat-backward and a
\* run filled flat-forward.
C11_Witness ==
  /\ InterpDone
  /\ \E r1, r2 \in GapRuns :
       /\ ValidBefore(r1[1]) = {} /\ ValidAfter(r1[2]) # {}
       /\ ValidBefore(r2[1]) # {} /\ ValidAfter(r2[2]) = {}
       /\ \A j \in (r1[1]..r1[2]) \cup (r2[1]..r2[2]) : interpolated[j].value > 0

\* C12: for a processed maximal run of gaps between the nearest valid values
\* v0 before it and v1 after it, v0 < v1, the sequence v0, the values of the
\* run, v1 is non-decreasing.
C12_MonotoneFill ==
  \A run \in GapRuns :
    (i > run[2] /\ ValidBefore(run[1]) # {} /\ ValidAfter(run[2]) # {}) =>
      LET v0 == historyArray[Maximum(ValidBefore(run[1]))].value
          v1 == historyArray[Minimum(ValidAfter(run[2]))].value
      IN  v0 < v1 =>
            /\ v0 <= interpolated[run[1]].value
            /\ \A j \in run[1]..(run[2] - 1) :
                 interpolated[j].value <= interpolated[j + 1].value
            /\ interpolated[run[2]].value <= v1

\* C12 witness: a run of two or more gaps directly between two valid values
\* v0 < v1 has been filled with increasing values.
C12_Witness ==
  /\ InterpDone
  /\ \E run \in GapRuns :
       /\ run[2] > run[1]
       /\ run[1] - 1 \in ValidBefore(run[1])
       /\ run[2] + 1 \in ValidAfter(run[2])
       /\ historyArray[run[1] - 1].value < historyArray[run[2] + 1].value
       /\ interpolated[run[1]].value < interpolated[run[2]].value

\* The widths adjustSmoothness moves between.
Ladder == {1, 3, 7, 14, 30, 60, 90}

\* The width next to the width on the ladder in the direction of delta; the
\* width itself where the ladder has none.
LadderNeighbour(width, delta) ==
  LET beyond == {w \in Ladder : IF delta > 0 THEN w > width ELSE w < width}
  IN  IF beyond = {} THEN width
      ELSE CHOOSE w \in beyond :
             \A v \in beyond : IF delta > 0 THEN w <= v ELSE w >= v

\* The window width of the chart of the last call before the call and now.
WidthBefore == lastCall.before.days

WidthNow == trendlineDaysAverage[lastCall.chartId]

\* The last handler called is one of the two that adjust the window width.
Adjusted == lastCall.handler \in {"adjustSmoothness", "adjustTrendlineSmoothness"}

\* Every chart with a trendline has a window width of a whole number of
\* days, 1 or more.
WidthAtLeastOne ==
  \A id \in ChartIds :
    chartsList[id].trendline => trendlineDaysAverage[id] \in Nat \ {0}

\* C13 as stated: the window width is an integer >= 1 and each single
\* adjustment changes it by exactly one day, unless the width is already at
\* the floor.  The calls of adjustSmoothness made while the trendline is
\* off, which return at once, are not counted as adjustments.
C13_OneDaySteps ==
  /\ WidthAtLeastOne
  /\ (/\ Adjusted
      /\ lastCall.handler = "adjustSmoothness" => lastCall.before.state
      /\ WidthBefore # 1) =>
       WidthNow \in {WidthBefore - 1, WidthBefore + 1}

\* C13 amended: the window width is always an integer >= 1; on the page of
\* crespomize-display.js (and unnamed/part_001) an adjustment by +1 adds one
\* day and an adjustment by -1 takes one day off, except at the floor 1,
\* where it leaves the width; on the page of crespomize/analytics.js an
\* adjustment made while the trendline is on moves the width to the next
\* width of the ladder 1, 3, 7, 14, 30, 60, 90 in its direction, and leaves
\* it at the end of the ladder; made while the trendline is off it leaves
\* the width.
C13_StepsOfEachPage ==
  /\ WidthAtLeastOne
  /\ lastCall.handler = "adjustTrendlineSmoothness" =>
       /\ lastCall.argument = 1 => WidthNow = WidthBefore + 1
       /\ lastCall.argument = 0 - 1 =>
            WidthNow = (IF WidthBefore = 1 THEN 1 ELSE WidthBefore - 1)
  /\ lastCall.handler = "adjustSmoothness" =>
       WidthNow = (IF lastCall.before.state
                     THEN LadderNeighbour(WidthBefore, lastCall.argument)
                     ELSE WidthBefore)

\* C13 witness: on the page of crespomize/analytics.js one adjustment has
\* moved the width of a shown trendline from 7 to 14 days, and the chart
\* shows the series smoothed over 14 days.
C13_Witness ==
  /\ script = "analytics"
  /\ lastCall.handler = "adjustSmoothness"
  /\ lastCall.argument = 1
  /\ lastCall.before.state
  /\ WidthBefore = 7
  /\ WidthNow = 14
  /\ LET chart == chartInstances[lastCall.chartId]
     IN  /\ chart.originalData.present
         /\ chart.data = SmoothedData(chart.originalData.data, 14)
         /\ chart.data # lastCall.before.chart.data

\* The indices of the points in the window of point p: from floor(days / 2)
\* days before it to days - floor(days / 2) days after it, bounds included.
WindowOf(p) ==
  {q \in 1..Len(data) :
     /\ data[q].x >= data[p].x - (days \div 2) * HoursPerDay
     /\ data[q].x <= data[p].x + (days - days \div 2) * HoursPerDay}

\* C14: the point returned for point p has the x of p and the mean of the y
\* values of the points in the window of p; the result has the length and
\* the x order of the input.
C14_WindowMean ==
  /\ Len(result) <= Len(data)
  /\ \A p \in 1..Len(result) :
       /\ result[p].x = data[p].x
       /\ result[p].den = Cardinality(WindowOf(p))
       /\ result[p].num = SumSeq([q \in 1..Len(data) |->
                                    IF q \in WindowOf(p) THEN data[q].y ELSE 0])

\* C14 witness: a finished call in which the window of some point holds
\* several points with different values, one on a bound of the window, but
\* not all points.
C14_Witness ==
  /\ AverageDone
  /\ \E p \in 1..Len(data) :
       /\ WindowOf(p) # 1..Len(data)
       /\ \E q, r \in WindowOf(p) : data[q].y # data[r].y
       /\ \E q \in WindowOf(p) :
            data[q].x = data[p].x + (days - days \div 2) * HoursPerDay

\* A step of a call of selectTimeRange.
RecomputationStep ==
  <<selectedTimeRange, accountData, uncaught, rowIndex, parseState, timers>>' #
    <<selectedTimeRange, accountData, uncaught, rowIndex, parseState, timers>>

\* C15: a recomputation changes neither the workbook nor the platform, the
\* account or the mode it reads; the snapshot a selection on one account
\* stores is parseAccountData of the platform, the sheet and the time range,
\* whatever was computed before; and the snapshot a selection on "All
\* MoonMedia" stores is parseMoonMediaTotal of the platform, the workbook
\* and the time range, whatever was computed or chosen before.
C15_Recomputation ==
  [][/\ RecomputationStep =>
          <<selectedPlatform, workbookData, selectedAccount, isMoonMediaTotal>>' =
            <<selectedPlatform, workbookData, selectedAccount, isMoonMediaTotal>>
     /\ (rowIndex >= 2 /\ rowIndex' = 0) =>
          accountData' = parseAccountData(selectedPlatform, SelectedSheet,
                                          selectedTimeRange)
     /\ (isMoonMediaTotal /\ Len(timers') > Len(timers)) =>
          accountData' = parseMoonMediaTotal(selectedPlatform, workbookData,
                                             selectedTimeRange')]_vars

\* C15 witness: while the snapshot of a selection that holds videos and a
\* history is on display, the same selection has been made again and its
\* row loop has come to its end.
C15_Witness ==
  /\ ~isMoonMediaTotal
  /\ HasSnapshot
  /\ rowIndex > Len(SelectedSheet)
  /\ accountData.videos # <<>>
  /\ accountData = parseAccountData(selectedPlatform, SelectedSheet, selectedTimeRange)

\* The ids that have a date-bearing row (post_<id>_Date, reel_<id>_date) in
\* the selected sheet; the row post_Date bears the date of the id ''.
DateBearingIds ==
  {VideoIdOf(SelectedSheet[r].name) :
     r \in {q \in 2..Len(SelectedSheet) :
              /\ Len(SelectedSheet[q].name) >= 2
              /\ Head(SelectedSheet[q].name) = PostPrefix(selectedPlatform)
              /\ Last(SelectedSheet[q].name) = DateMetric(selectedPlatform)}}

\* C16: postsScraped of the snapshot of an account is the number of distinct
\* ids with a date-bearing row in its sheet, under every time range and
\* whatever the number of post records.
C16_PostsScraped ==
  HasSnapshot => accountData.postsScraped = Cardinality(DateBearingIds)

\* C16 witness: a snapshot under a bounded time range counts two ids, and
\* fewer than two post records are materialized.
C16_Witness ==
  /\ Idle
  /\ HasSnapshot
  /\ ~selectedTimeRange.all
  /\ accountData.postsScraped = 2
  /\ Len(accountData.videos) < 2

\* The value the sheet holds for attribute field of id: the right-most
\* non-blank cell of the first row of that name that has one.
AttributeValue(id, field) ==
  LET rows == {r \in 2..Len(SelectedSheet) :
                 /\ NamesAttribute(SelectedSheet[r].name, id, field)
                 /\ HasValue(SelectedSheet[r].cells)}
  IN  IF rows = {} THEN Undef ELSE RightMost(SelectedSheet[Minimum(rows)].cells)

\* The cell holds a timestamp the Date Validator accepts.
AcceptedDateCell(cell) == cell.k = "date" /\ AcceptedDate(MkDate(cell.n))

\* The count a cell stands for: its number, 0 when it is absent or a text.
CountOf(cell) == IF cell.k = "num" THEN cell.n ELSE 0

\* The ids whose date attribute is accepted and lies in the selected range.
MaterializedIds ==
  {id \in SheetIds :
     /\ AcceptedDateCell(AttributeValue(id, "Date"))
     /\ InSelectedRange(AttributeValue(id, "Date").n)}

\* C17: the videos of a snapshot are one record for each id whose date
\* attribute holds an accepted date (of the selected range), and no other;
\* views, likes, comments and shares of a record are the integers of the
\* id's attributes, 0 for an absent or non-numeric one; and a handler is
\* left by an exception only when the sheet has no row at all.
C17_PostRecords ==
  /\ uncaught => SelectedSheet = <<>>
  /\ (HasSnapshot /\ Idle) =>
       /\ Len(accountData.videos) = Cardinality(MaterializedIds)
       /\ \A p \in 1..Len(accountData.videos) :
            \E id \in MaterializedIds :
              /\ accountData.videos[p].date = MkDate(AttributeValue(id, "Date").n)
              /\ accountData.videos[p].views = CountOf(AttributeValue(id, "Views"))
              /\ accountData.videos[p].likes = CountOf(AttributeValue(id, "Likes"))
              /\ accountData.videos[p].comments = CountOf(AttributeValue(id, "Comments"))
              /\ accountData.videos[p].shares =
                   IF selectedPlatform = "instagram" THEN 0
                   ELSE CountOf(AttributeValue(id, "Shares"))
              /\ {accountData.videos[p].views, accountData.videos[p].likes,
                   accountData.videos[p].comments, accountData.videos[p].shares}
                     \subseteq Int

\* C17 witness: the snapshot of a sheet with two ids holds the record of one
\* id only, or the record of an id whose views are a text, with views 0.
C17_Witness ==
  /\ Idle
  /\ HasSnapshot
  /\ Len(accountData.videos) = 1
  /\ \/ \E id \in SheetIds : /\ Truthy(AttributeValue(id, "Date"))
                              /\ ~AcceptedDateCell(AttributeValue(id, "Date"))
     \/ \E id \in MaterializedIds : AttributeValue(id, "Views") = Text

\* The index of the first of the last 100 entries of a list of n entries.
FirstOfLast100(n) == IF n > 100 THEN n - 99 ELSE 1

\* C18: the videos of the aggregate snapshot are sorted by date; with two or
\* more videos and a positive time between the first and the last of the
\* last 100 of them, viewsPerSecond is the sum of the views of those last
\* 100 divided by that time in seconds; otherwise it is 0.
C18_ViewsPerSecond ==
  TotalDone =>
    LET videos  == accountData.videos
        n       == Len(videos)
        first   == FirstOfLast100(n)
        views   == SumSeq([p \in 1..n |-> IF p >= first THEN videos[p].views ELSE 0])
        seconds == (videos[n].date.t - videos[first].date.t) * 3600
        rate    == accountData.viewsPerSecond
    IN  /\ \A p \in 1..(n - 1) : videos[p].date.t <= videos[p + 1].date.t
        /\ rate.den > 0
        /\ IF n >= 2 /\ seconds > 0
             THEN rate.num * seconds = views * rate.den
             ELSE rate.num = 0

\* C18 witness: an aggregate snapshot of more than 100 videos, the ones
\* before the last 100 with views, and a rate above 0.
C18_Witness ==
  /\ TotalDone
  /\ Len(accountData.videos) > 100
  /\ accountData.videos[1].views > 0
  /\ accountData.viewsPerSecond.num > 0

(***************************************************************************)
(* C19.  filterDataByTimeRange(videos, 'all') returns videos unchanged;    *)
(* filterDataByTimeRange(videos, n) for n of 30, 180 and 365 returns       *)
(* exactly the items dated at or after Now minus n days, in their original *)
(* order.  Every call returns, and videos is the same after the call.      *)
(***************************************************************************)
\* The places in videos of the items dated at or after n days before Now.
KeptPlaces(videos, n) ==
  {p \in 1..Len(videos) :
     ~videos[p].date.nan /\ videos[p].date.t >= Now - n * HoursPerDay}

\* The k-th smallest place of a set of places.
PlaceOf(places, k) ==
  CHOOSE p \in places : Cardinality({q \in places : q <= p}) = k

\* What a call on filterVideos and filterRange has to return.
FilterExpected ==
  IF filterRange.all THEN filterResult.value = filterVideos
  ELSE LET places == KeptPlaces(filterVideos, filterRange.days)
       IN  /\ Len(filterResult.value) = Cardinality(places)
           /\ \A k \in 1..Cardinality(places) :
                filterResult.value[k] = filterVideos[PlaceOf(places, k)]

\* C19: a step from a state where the call has not been made is the call
\* returning; it leaves videos and the range as they were, and its value is
\* videos itself for 'all' and otherwise the items of videos dated at or
\* after Now minus the range's days, in their order in videos.
C19_FilterResult ==
  [][~filterResult.called =>
       /\ filterResult'.called
       /\ filterVideos' = filterVideos
       /\ filterRange' = filterRange
       /\ FilterExpected']_vars

\* A 30-day call on three videos that kept the one dated exactly 30 days
\* before Now and dropped an earlier one and one with an Invalid Date.
C19_Witness ==
  /\ filterResult.called
  /\ filterRange = RangeDays(30)
  /\ Len(filterVideos) = 3
  /\ Len(filterResult.value) = 1
  /\ filterResult.value[1].date.t = Now - 30 * HoursPerDay
  /\ \E p \in 1..3 : filterVideos[p].date.nan

(***************************************************************************)
(* C20.  shouldUseLogScale(values) is true exactly when, over the values   *)
(* greater than 0, max/min > 100 or max/median > 10, the median being the  *)
(* element at index floor(n/2) of the ascending sort; it is false when no  *)
(* value is greater than 0.  [1,1,1,1000] gives true, [10,12,9,11] false.  *)
(***************************************************************************)
\* The positive values of the data, as the places that hold them.
PositivePlaces(dataValues) == {p \in 1..Len(dataValues) : dataValues[p] > 0}

\* m is the element at 0-based index idx of the ascending sort of the values
\* at the places: at most idx values are smaller, more than idx are no larger.
IsElementAt(dataValues, places, idx, m) ==
  /\ Cardinality({p \in places : dataValues[p] < m}) <= idx
  /\ Cardinality({p \in places : dataValues[p] <= m}) > idx

LogScaleExpected(dataValues) ==
  LET places == PositivePlaces(dataValues)
      n == Cardinality(places)
  IN  /\ places # {}
      /\ \E hi \in places, lo \in places, mid \in places :
           /\ \A p \in places : dataValues[lo] <= dataValues[p] /\ dataValues[p] <= dataValues[hi]
           /\ IsElementAt(dataValues, places, n \div 2, dataValues[mid])
           /\ \/ dataValues[hi] > 100 * dataValues[lo]
              \/ dataValues[hi] > 10 * dataValues[mid]

C20_LogScale ==
  scaleResult.called =>
    /\ scaleResult.value = LogScaleExpected(scaleData)
    /\ scaleData = <<1, 1, 1, 1000>> => scaleResult.value = TRUE
    /\ scaleData = <<10, 12, 9, 11>> => scaleResult.value = FALSE

\* A call that answered false on four values whose upper middle element is
\* the maximum while the lower one is a hundredth of it.
C20_Witness ==
  /\ scaleResult.called
  /\ scaleData = <<1, 100, 1, 100>>
  /\ scaleResult.value = FALSE

(***************************************************************************)
(* C21.  The videos of the aggregate snapshot are the videos of all the    *)
(* accounts' snapshots under the selected range, each as often as the      *)
(* accounts hold it, sorted ascending by date; followers, totalLikes and   *)
(* postsScraped are the sums of the accounts' values.                      *)
(***************************************************************************)
\* How often the list holds the item.
Occurrences(list, item) == Cardinality({p \in 1..Len(list) : list[p] = item})

SumOverAccounts(field) ==
  SumSeq([k \in 1..Len(workbookData) |-> AccountSnapshots[k][field]])

C21_ConcatenationAndSums ==
  TotalDone =>
    LET videos == accountData.videos
        items  == Range(videos)
                    \cup UNION {Range(AccountSnapshots[k].videos) :
                                  k \in 1..Len(workbookData)}
    IN  /\ \A p \in 1..(Len(videos) - 1) : videos[p].date.t <= videos[p + 1].date.t
        /\ \A item \in items :
             Occurrences(videos, item) =
               SumSeq([k \in 1..Len(workbookData) |->
                         Occurrences(AccountSnapshots[k].videos, item)])
        /\ accountData.followers = SumOverAccounts("followers")
        /\ accountData.totalLikes = SumOverAccounts("totalLikes")
        /\ accountData.postsScraped = SumOverAccounts("postsScraped")

\* C21 witness: an aggregate with followers of two accounts that both hold
\* videos, the first account's first video dated after a video of the second.
C21_Witness ==
  /\ TotalDone
  /\ Len(workbookData) = 2
  /\ AccountSnapshots[1].videos # <<>>
  /\ AccountSnapshots[2].videos # <<>>
  /\ AccountSnapshots[1].videos[1].date.t > AccountSnapshots[2].videos[1].date.t
  /\ accountData.followers > 0
  /\ accountData.postsScraped >= 2

(***************************************************************************)
(* C22.  The total-likes history of an Instagram account, whose sheet has  *)
(* no total_likes row, against the per-column sums of its reel_<id>_likes  *)
(* rows.                                                                   *)
(***************************************************************************)
InstagramSnapshot ==
  HasSnapshot /\ ~TotalDone /\ selectedPlatform = "instagram"

\* The rows of the selected sheet named reel_<id>_likes.
LikesRowPlaces ==
  {r \in 2..Len(SelectedSheet) :
     LET name == SelectedSheet[r].name
     IN  Len(name) >= 2 /\ name[1] = "reel" /\ name[Len(name)] = "likes"}

\* The sum over those rows of the cell in column col, a cell that is no
\* number counted as 0.
LikesSum(col) ==
  SumSeq([r \in 1..Len(SelectedSheet) |->
            IF r \in LikesRowPlaces /\ col <= Len(SelectedSheet[r].cells)
              THEN CountOf(SelectedSheet[r].cells[col])
              ELSE 0])

\* The columns whose header timestamp the Date Validator accepts.
AcceptedColumns ==
  {col \in 1..Len(SelectedSheet[1].cells) :
     AcceptedDate(NewDate(SelectedSheet[1].cells[col]))}

\* C22 as stated: for every header timestamp the Date Validator accepts, the
\* total-likes history of an Instagram account has a point at that timestamp
\* whose value is the sum of the reel_<id>_likes cells of the column.
C22_PointPerTimestamp ==
  InstagramSnapshot =>
    \A col \in AcceptedColumns :
      \E p \in 1..Len(accountData.totalLikesHistory) :
        /\ accountData.totalLikesHistory[p].date = NewDate(SelectedSheet[1].cells[col])
        /\ accountData.totalLikesHistory[p].value = LikesSum(col)

\* C22 amended: the total-likes history of an Instagram account is, in
\* column order, one point for every column whose header timestamp the Date
\* Validator accepts and whose sum of reel_<id>_likes cells is above 0, with
\* that timestamp and that sum; a column whose sum is 0 or less has no point.
C22_PositiveColumnSums ==
  InstagramSnapshot =>
    accountData.totalLikesHistory =
      SelectSeq([col \in 1..Len(SelectedSheet[1].cells) |->
                   [date  |-> NewDate(SelectedSheet[1].cells[col]),
                    value |-> LikesSum(col)]],
                LAMBDA item : AcceptedDate(item.date) /\ item.value > 0)

\* C22 witness: the snapshot of a sheet with two likes rows and three
\* accepted columns whose history has the sum of both rows in one column and
\* no point for a column whose sum is 0.
C22_Witness ==
  /\ InstagramSnapshot
  /\ Cardinality(LikesRowPlaces) = 2
  /\ Cardinality(AcceptedColumns) = 3
  /\ Len(accountData.totalLikesHistory) = 2
  /\ \E col \in AcceptedColumns : LikesSum(col) = 0
  /\ \E col \in AcceptedColumns :
       /\ LikesSum(col) = 13
       /\ \E p \in 1..2 : accountData.totalLikesHistory[p].value = 13

(***************************************************************************)
(* C23.  isValidDate(x) is true exactly when x is a Date with a time value *)
(* that is not NaN and a year from 2020 to the current year plus one, and  *)
(* no history point or post record of a returned snapshot carries a        *)
(* timestamp the predicate rejects.  With the current year 2026 the        *)
(* accepted instants run from 2020-01-01T00 to 2027-12-31T23.              *)
(***************************************************************************)
AcceptedInstant(t) == t >= At(18262, 0) /\ t < At(21184, 0)

IsAcceptedDate(x) ==
  /\ DOMAIN x = {"nan", "t"}
  /\ ~x.nan
  /\ AcceptedInstant(x.t)

AllAccepted(list) == \A p \in 1..Len(list) : IsAcceptedDate(list[p].date)

SnapshotAccepted(snapshot) ==
  /\ AllAccepted(snapshot.followersHistory)
  /\ AllAccepted(snapshot.totalLikesHistory)
  /\ AllAccepted(snapshot.videos)

C23_DateValidator ==
  /\ validResult.called => validResult.value = IsAcceptedDate(validInput)
  /\ TotalDone =>
       /\ SnapshotAccepted(accountData)
       /\ \A k \in 1..Len(workbookData) : SnapshotAccepted(AccountSnapshots[k])

\* C23 witness: the validator has rejected the first hour of 2028, and an
\* aggregate with a video has been returned for a workbook with a header
\* cell and a post date cell in 2028, one account having a history point.
C23_Witness ==
  /\ validResult.called
  /\ validInput = [nan |-> FALSE, t |-> At(21184, 0)]
  /\ validResult.value = FALSE
  /\ TotalDone
  /\ \E k \in 1..Len(workbookData) : AccountSnapshots[k].followersHistory # <<>>
  /\ accountData.videos # <<>>
  /\ \E k \in 1..Len(workbookData) :
       \E col \in 1..Len(workbookData[k][1].cells) :
         workbookData[k][1].cells[col] = DateText(DayFuture)
  /\ \E k \in 1..Len(workbookData) :
       \E r \in 1..Len(workbookData[k]) :
         workbookData[k][r].cells = <<DateText(DayFuture)>>

(***************************************************************************)
(* C24.  Whenever workbookData is not null it is the workbook of the       *)
(* selected platform, and the account list never shows the accounts of     *)
(* another platform than the selected one.                                 *)
(***************************************************************************)
C24_WorkbookOfSelectedPlatform ==
  /\ workbookData # <<>> =>
       /\ selectedPlatform \in Platforms
       /\ workbookData = WorkbookOf(selectedPlatform)
  /\ accountSelect.shows \in Platforms => accountSelect.shows = selectedPlatform

(***************************************************************************)
(* C25.  On the page of crespomize/analytics.js, under toggleTrendline and *)
(* adjustSmoothness: while the trendline is on, originalData is the series *)
(* the chart was created with and the displayed data is                    *)
(* calculateMovingAverageByDays of it over the chart's window; while it is *)
(* off, the displayed data is that series and originalData is absent.      *)
(***************************************************************************)
\* The charts of the page that are in #chartsList.
OnPage(ids) == {id \in ids : chartsList[id].badge # ""}

\* The series renderDashboard of crespomize/analytics.js handed to
\* createChart for the chart of the id: a property of the videos, or a
\* history, of the snapshot it drew.
CreatedWith(id) ==
  LET videos == renderedData.videos
      ofVideos(field) ==
        [p \in 1..Len(videos) |->
           [x |-> videos[p].date.t, y |-> [num |-> videos[p][field], den |-> 1]]]
      ofHistory(history) ==
        [p \in 1..Len(history) |->
           [x |-> history[p].date.t, y |-> [num |-> history[p].value, den |-> 1]]]
  IN  CASE id = "chart-views"      -> ofVideos("views")
        [] id = "chart-engagement" -> ofVideos("engagement")
        [] id = "chart-likes"      -> ofVideos("likes")
        [] id = "chart-comments"   -> ofVideos("comments")
        [] id = "chart-shares"     -> ofVideos("shares")
        [] id = "chart-followers"  -> ofHistory(renderedData.followersHistory)
        [] id = "chart-totallikes" -> ofHistory(renderedData.totalLikesHistory)

C25_TrendlineData ==
  script = "analytics" =>
    \A id \in OnPage(AnalyticsChartIds) :
      LET chart == chartInstances[id]
      IN  IF trendlineStates[id]
            THEN /\ chart.originalData.present
                 /\ chart.originalData.data = CreatedWith(id)
                 /\ chart.data = SmoothedData(CreatedWith(id), trendlineDaysAverage[id])
            ELSE /\ ~chart.originalData.present
                 /\ chart.data = CreatedWith(id)

\* C25 witness: adjustSmoothness has brought the window of a shown trendline
\* from the 7 days of creation to 3, and the displayed data differs from the
\* series kept aside and from its 7-day average.
C25_Witness ==
  /\ script = "analytics"
  /\ lastCall.handler = "adjustSmoothness"
  /\ trendlineStates[lastCall.chartId]
  /\ trendlineDaysAverage[lastCall.chartId] = 3
  /\ LET chart == chartInstances[lastCall.chartId]
     IN  /\ chart.originalData.present
         /\ chart.data # chart.originalData.data
         /\ chart.data # SmoothedData(chart.originalData.data, 7)

(***************************************************************************)
(* C26.  interpolateHistoricalData returns as many entries as it is given, *)
(* with the same dates in the same order, and every entry whose value is   *)
(* not 0 as it was; it does not write to its input array; applied to what  *)
(* it returned it returns the same again.                                  *)
(***************************************************************************)
C26_FrameAndIdempotence ==
  /\ [](InterpDone =>
          /\ Len(interpolated) = Len(historyArray)
          /\ \A j \in 1..Len(historyArray) :
               /\ interpolated[j].date = historyArray[j].date
               /\ historyArray[j].value # 0 => interpolated[j] = historyArray[j]
          /\ interpolateHistoricalData(interpolated) = interpolated)
  /\ [][historyArray' = historyArray]_vars

\* C26 witness: a finished call that filled a gap next to a negative entry
\* and a positive one.
C26_Witness ==
  /\ InterpDone
  /\ Len(historyArray) >= 3
  /\ interpolated # historyArray
  /\ \E j \in 1..Len(historyArray) : historyArray[j].value < 0
  /\ \E j \in 1..Len(historyArray) :
       historyArray[j].value = 0 /\ interpolated[j].value > 0

(***************************************************************************)
(* C27.  Under toggleLogScale the y axis is 'logarithmic' or 'linear', the *)
(* secondary axis y1, when the chart has one, has the type of y, the x     *)
(* axis of the 'correlation' chart has the type of y, and two toggles in a *)
(* row give back the axis types and the badge text.                        *)
(***************************************************************************)
\* A step that is a call of the handler.
Called(handler) == lastCall' # lastCall /\ lastCall'.handler = handler

C27_LogScaleToggle ==
  /\ [](script = "display" =>
          \A id \in OnPage(DisplayChartIds) :
            LET scales == chartInstances[id].scales
            IN  /\ scales.y \in {"logarithmic", "linear"}
                /\ scales.y1 # "" => scales.y1 = scales.y
                /\ id = "correlation" => scales.x = scales.y
                /\ chartsList[id].badge =
                     (IF scales.y = "logarithmic" THEN "LOG SCALE" ELSE "LINEAR"))
  /\ [][(/\ lastCall.handler = "toggleLogScale"
         /\ Called("toggleLogScale")
         /\ lastCall'.chartId = lastCall.chartId) =>
          /\ chartInstances'[lastCall.chartId].scales = lastCall.before.chart.scales
          /\ chartsList'[lastCall.chartId].badge = lastCall.before.header.badge]_vars

\* C27 witness: a chart with the secondary axis that was created linear is
\* logarithmic on both axes, with the badge LOG SCALE, after a toggle.
C27_Witness ==
  /\ script = "display"
  /\ lastCall.handler = "toggleLogScale"
  /\ lastCall.chartId = "views-time"
  /\ lastCall.before.chart.scales = [x |-> "time", y |-> "linear", y1 |-> "linear"]
  /\ lastCall.before.header.badge = "LINEAR"
  /\ chartInstances["views-time"].scales =
       [x |-> "time", y |-> "logarithmic", y1 |-> "logarithmic"]
  /\ chartsList["views-time"].badge = "LOG SCALE"

(***************************************************************************)
(* C28.  On the page of crespomize-display.js, from the creation of the    *)
(* chart on and under toggleTrendline and adjustTrendlineSmoothness, the   *)
(* data of the 'Trend' dataset is calculateMovingAverageByDays of the data *)
(* dataset over trendlineDaysAverage[chartId] days, the Trend dataset is   *)
(* hidden exactly when trendlineStates[chartId] is false, and              *)
(* toggleTrendline changes neither the window nor the Trend data.          *)
(***************************************************************************)
C28_TrendDataset ==
  /\ [](script = "display" =>
          \A id \in OnPage(DisplayChartIds) :
            chartsList[id].trendline =>
              LET chart == chartInstances[id]
              IN  /\ chart.trend.present
                  /\ chart.trend.data =
                       SmoothedData(chart.data, trendlineDaysAverage[id])
                  /\ chart.trend.hidden = ~trendlineStates[id])
  /\ [][(script = "display" /\ Called("toggleTrendline")) =>
          /\ trendlineStates'[lastCall'.chartId] = ~trendlineStates[lastCall'.chartId]
          /\ trendlineDaysAverage' = trendlineDaysAverage
          /\ chartInstances'[lastCall'.chartId].trend.data =
               chartInstances[lastCall'.chartId].trend.data]_vars

\* C28 witness: a trendline is shown with a window other than the 7 days of
\* creation, and its data is neither the data dataset nor the 7-day
\* average.
C28_Witness ==
  /\ script = "display"
  /\ lastCall.handler = "toggleTrendline"
  /\ trendlineStates[lastCall.chartId]
  /\ trendlineDaysAverage[lastCall.chartId] # 7
  /\ LET chart == chartInstances[lastCall.chartId]
     IN  /\ ~chart.trend.hidden
         /\ chart.trend.data # chart.data
         /\ chart.trend.data # SmoothedData(chart.data, 7)

(***************************************************************************)
(* C29.  When selectTimeRange is called again before the timer of an       *)
(* earlier call has fired: every timer callback renders the label of a     *)
(* selection together with the data of that same selection, and once no    *)
(* timer is pending the dashboard shows the label and the data of the last *)
(* selected range.                                                         *)
(***************************************************************************)
\* The data of the selection of the range.
DataOfSelection(range) == parseMoonMediaTotal(selectedPlatform, workbookData, range)

\* The headers of the charts renderDashboard draws of the snapshot.
HeadersOf(snapshot) ==
  LET created == IF script = "display"
                   THEN renderDashboardDisplay(selectedPlatform, snapshot)
                   ELSE renderDashboardAnalytics(selectedPlatform, snapshot)
  IN  [id \in ChartIds |-> created[id].header]

C29_LabelAndDataOfOneSelection ==
  /\ [](timers = <<>> /\ timeRangeLabel # "" =>
          /\ timeRangeLabel = RangeText(selectedTimeRange)
          /\ renderedData = DataOfSelection(selectedTimeRange)
          /\ chartsList = HeadersOf(DataOfSelection(selectedTimeRange)))
  /\ [][timers # <<>> /\ timers' = Tail(timers) =>
          \E range \in ChartRanges :
            /\ timeRangeLabel' = RangeText(range)
            /\ renderedData' = DataOfSelection(range)
            /\ chartsList' = HeadersOf(DataOfSelection(range))]_vars

(***************************************************************************)
(* C30.  On the page of crespomize/analytics.js: adjustSmoothness changes  *)
(* nothing while the trendline of the chart is off; the window width is    *)
(* always one of 1, 3, 7, 14, 30, 60, 90; a decrease at 1 and an increase  *)
(* at 90 leave the width and the displayed data unchanged.                 *)
(***************************************************************************)
\* The chart a call of adjustSmoothness is made for.
Adjusting == lastCall'.chartId

C30_SmoothnessLadder ==
  /\ [](script = "analytics" =>
          \A id \in OnPage(AnalyticsChartIds) : trendlineDaysAverage[id] \in Ladder)
  /\ [][(Called("adjustSmoothness") /\ ~trendlineStates[Adjusting]) =>
          UNCHANGED <<script, chartInstances, chartsList, trendlineStates,
                      trendlineDaysAverage, interpVars, averageVars, pageVars,
                      callVars>>]_vars
  /\ [][(/\ Called("adjustSmoothness")
         /\ trendlineStates[Adjusting]
         /\ \/ lastCall'.argument < 0 /\ trendlineDaysAverage[Adjusting] = 1
            \/ lastCall'.argument > 0 /\ trendlineDaysAverage[Adjusting] = 90) =>
          UNCHANGED <<trendlineDaysAverage, chartInstances>>]_vars

\* C30 witness: with the trendline on and the width at 90, adjustSmoothness
\* has been called to raise it, and the chart shows the series smoothed over
\* 90 days as before the call.
C30_Witness ==
  /\ script = "analytics"
  /\ lastCall.handler = "adjustSmoothness"
  /\ lastCall.argument = 1
  /\ lastCall.before.state
  /\ lastCall.before.days = 90
  /\ trendlineDaysAverage[lastCall.chartId] = 90
  /\ LET chart == chartInstances[lastCall.chartId]
     IN  /\ chart = lastCall.before.chart
         /\ chart.data = SmoothedData(chart.originalData.data, 90)
         /\ chart.data # chart.originalData.data

====
